---- MODULE Spec2Model ----
(***************************************************************************)
(* Seat reservation and booking lifecycle of the airline reservation       *)
(* system: backend/booking_service.py, backend/payment_service.py and the  *)
(* flight set-up of backend/flight_service.py, over the tables of          *)
(* database/models.py.                                                      *)
(*                                                                          *)
(* The store is the committed content of the tables.  Every service call   *)
(* runs its statements in one SERIALIZABLE transaction                      *)
(* (database/database.py serializable_transaction): a call first takes its *)
(* snapshot (Begin...), and later runs to its end (the operation's action). *)
(* A transaction whose rows were rewritten by a transaction that committed *)
(* after its snapshot was taken is "stale": the store answers it with a    *)
(* serialization failure (psycopg2 TransactionRollbackError) and rolls it  *)
(* back.  A transaction that is not stale sees, on every row it touches,   *)
(* exactly the committed values, so its statements are evaluated on the    *)
(* committed tables.                                                        *)
(***************************************************************************)
EXTENDS Integers, Sequences, FiniteSets, TLC

VARIABLES passengers, flights, seats, bookings, frequent_flyers, payments,
          calls, last

vars == <<passengers, flights, seats, bookings, frequent_flyers, payments, calls, last>>

tables == <<passengers, flights, seats, bookings, frequent_flyers, payments>>

(***************************************************************************)
(* Bounds of the model.                                                     *)
(***************************************************************************)
\* concurrent callers (threads) of the general specification
NumProcs == 2
\* bookings the general specification lets callers create
MaxBookings == 2

\* calls that may be under way at once besides those that run uninterrupted
MaxInFlight == 1

\* unused booking references the generator's draw can fall on
RefChoices == 1
\* economy seats of the aircraft of flight 1
EconomySeats == 2
\* first class seats of the aircraft of flight 2
FirstSeats == 1

(***************************************************************************)
(* Enumerations (database/models.py).                                       *)
(***************************************************************************)
SeatClass == {"economy", "business", "first"}

BookingStatus == {"pending", "confirmed", "cancelled", "completed"}

PaymentStatus == {"pending", "success", "failed", "refunded"}

LoyaltyTier == {"bronze", "silver", "gold", "platinum"}

\* Python's None, for an absent seat / seat number (an empty string is falsy too)
None == <<>>

(***************************************************************************)
(* Seat numbers are the strings f"{row}{col}"; they are kept as the         *)
(* sequence of their character codes, and ORDER BY seat_number compares     *)
(* them as strings.                                                         *)
(***************************************************************************)
RECURSIVE DecimalDigits(_)
DecimalDigits(n) ==
    IF n < 10 THEN <<48 + n>> ELSE DecimalDigits(n \div 10) \o <<48 + (n % 10)>>

\* col 1..6 is 'A'..'F'
SeatNumber(row, col) == DecimalDigits(row) \o <<64 + col>>

RECURSIVE StrLess(_, _)
StrLess(a, b) ==
    IF a = <<>> THEN b # <<>>
    ELSE IF b = <<>> THEN FALSE
    ELSE IF Head(a) # Head(b) THEN Head(a) < Head(b)
    ELSE StrLess(Tail(a), Tail(b))

(***************************************************************************)
(* FlightService._generate_seats: the seat rows of a new flight, first     *)
(* class in rows of 4 from row 1, then business and economy in rows of 6.   *)
(***************************************************************************)
SeatRow(flight_id, row, col, seat_class) ==
    [flight_id |-> flight_id, seat_number |-> SeatNumber(row, col),
     seat_class |-> seat_class, is_available |-> TRUE]

GenerateSeats(flight_id, aircraft) ==
    LET first_rows == (aircraft.first_class_seats + 3) \div 4
        business_start_row == first_rows + 1
        business_rows == (aircraft.business_seats + 5) \div 6
        economy_start_row == business_start_row + business_rows
        firstSeats == [i \in 1..aircraft.first_class_seats |->
            SeatRow(flight_id, 1 + ((i - 1) \div 4), 1 + ((i - 1) % 4), "first")]
        businessSeats == [i \in 1..aircraft.business_seats |->
            SeatRow(flight_id, business_start_row + ((i - 1) \div 6),
                    1 + ((i - 1) % 6), "business")]
        economySeats == [i \in 1..aircraft.economy_seats |->
            SeatRow(flight_id, economy_start_row + ((i - 1) \div 6),
                    1 + ((i - 1) % 6), "economy")]
    IN firstSeats \o businessSeats \o economySeats

(***************************************************************************)
(* FlightService.create_flight: the flight row, its counters set to the    *)
(* aircraft's per-class seat counts, status 'scheduled' (column default).   *)
(***************************************************************************)
CreateFlight(aircraft, base_price) ==
    [aircraft |-> aircraft,
     base_price |-> base_price,
     available |-> [c \in SeatClass |->
                      CASE c = "economy" -> aircraft.economy_seats
                        [] c = "business" -> aircraft.business_seats
                        [] OTHER -> aircraft.first_class_seats],
     status |-> "scheduled"]

\* capacity of a class on a flight: the seat count of the flight's aircraft
Capacity(flight, seat_class) ==
    CASE seat_class = "economy" -> flight.aircraft.economy_seats
      [] seat_class = "business" -> flight.aircraft.business_seats
      [] OTHER -> flight.aircraft.first_class_seats

(***************************************************************************)
(* Loyalty ledger.  Prices are kept in cents, multipliers in hundredths.    *)
(***************************************************************************)
\* FrequentFlyer.calculate_tier
CalculateTier(points) ==
    IF points >= 100000 THEN "platinum"
    ELSE IF points >= 50000 THEN "gold"
    ELSE IF points >= 25000 THEN "silver"
    ELSE "bronze"

\* tier_multipliers = {'bronze': 1.0, 'silver': 1.25, 'gold': 1.5, 'platinum': 2.0}
TierMultiplier(tier) ==
    CASE tier = "bronze" -> 100
      [] tier = "silver" -> 125
      [] tier = "gold" -> 150
      [] tier = "platinum" -> 200
      [] OTHER -> 100

\* _calculate_points that multiplies the price by both multipliers and
\* truncates once, at the end
CalculatePointsTruncateOnce(price, seat_class, tier_multiplier) ==
    LET class_multiplier == IF seat_class = "first" THEN 300
                            ELSE IF seat_class = "business" THEN 200 ELSE 100
    IN (price * class_multiplier * tier_multiplier) \div 1000000

\* BookingService._calculate_points: int() truncates after each multiplication
CalculatePoints(price, seat_class, tier_multiplier) ==
    LET base_points == price \div 100
        class_points == IF seat_class = "first" THEN (base_points * 300) \div 100
                        ELSE IF seat_class = "business" THEN (base_points * 200) \div 100
                        ELSE base_points
    IN (class_points * tier_multiplier) \div 100

(***************************************************************************)
(* The committed tables as one value, and the result of a transaction:     *)
(* what the call returns or raises, whether the transaction committed, and *)
(* the tables it leaves.  A raise inside the `with` block rolls back        *)
(* (DatabaseManager.transaction).                                           *)
(***************************************************************************)
Store ==
    [passengers |-> passengers, flights |-> flights, seats |-> seats,
     bookings |-> bookings, frequent_flyers |-> frequent_flyers,
     payments |-> payments]

\* a raise inside the transaction: conn.rollback(), the tables stay as they were
Raise(db, kind) == [outcome |-> kind, commit |-> FALSE, db |-> db]

\* normal exit of the `with` block: conn.commit()
Return(db) == [outcome |-> "ok", commit |-> TRUE, db |-> db]

\* seat_id NULL / seat = None
NoSeat == 0

ActiveStatus == {"pending", "confirmed"}

(***************************************************************************)
(* BookingService._reserve_seat.                                            *)
(***************************************************************************)
\* FlipSeat that reports the row as updated without writing it
FlipSeatNoWrite(seatTable, id) ==
    [updated |-> id \in DOMAIN seatTable /\ seatTable[id].is_available,
     seats |-> seatTable]

\* UPDATE seats SET is_available = FALSE WHERE id = %s AND is_available = TRUE RETURNING id
FlipSeat(seatTable, id) ==
    IF id \in DOMAIN seatTable /\ seatTable[id].is_available
    THEN [updated |-> TRUE, seats |-> [seatTable EXCEPT ![id].is_available = FALSE]]
    ELSE [updated |-> FALSE, seats |-> seatTable]

\* CandidateSeat with ORDER BY seat_number DESC
CandidateSeatHighest(seatTable, flight_id, seat_class, seat_number) ==
    LET avail == {s \in DOMAIN seatTable :
                    /\ seatTable[s].flight_id = flight_id
                    /\ seatTable[s].seat_class = seat_class
                    /\ seatTable[s].is_available
                    /\ (seat_number # None => seatTable[s].seat_number = seat_number)}
    IN IF avail = {} THEN NoSeat
       ELSE CHOOSE s \in avail :
              \A t \in avail \ {s} :
                 StrLess(seatTable[t].seat_number, seatTable[s].seat_number)

\* CandidateSeat whose SELECT has no `AND seat_class = %s`
CandidateSeatAnyClass(seatTable, flight_id, seat_class, seat_number) ==
    LET avail == {s \in DOMAIN seatTable :
                    /\ seatTable[s].flight_id = flight_id
                    /\ seatTable[s].is_available
                    /\ (seat_number # None => seatTable[s].seat_number = seat_number)}
    IN IF avail = {} THEN NoSeat
       ELSE CHOOSE s \in avail :
              \A t \in avail \ {s} :
                 StrLess(seatTable[s].seat_number, seatTable[t].seat_number)

\* the candidate row of the SELECT: the named seat, or the lowest seat_number (LIMIT 1)
CandidateSeat(seatTable, flight_id, seat_class, seat_number) ==
    LET avail == {s \in DOMAIN seatTable :
                    /\ seatTable[s].flight_id = flight_id
                    /\ seatTable[s].seat_class = seat_class
                    /\ seatTable[s].is_available
                    /\ (seat_number # None => seatTable[s].seat_number = seat_number)}
    IN IF avail = {} THEN NoSeat
       ELSE CHOOSE s \in avail :
              \A t \in avail \ {s} :
                 StrLess(seatTable[s].seat_number, seatTable[t].seat_number)

\* ReserveSeat with `AND is_available = TRUE` left out of the SELECT and the UPDATE
ReserveSeatAnySeat(seatTable, flight_id, seat_class, seat_number) ==
    LET rows == {s \in DOMAIN seatTable :
                    /\ seatTable[s].flight_id = flight_id
                    /\ seatTable[s].seat_class = seat_class
                    /\ (seat_number # None => seatTable[s].seat_number = seat_number)}
        candidate == IF rows = {} THEN NoSeat
                     ELSE CHOOSE s \in rows :
                            \A t \in rows \ {s} :
                               StrLess(seatTable[s].seat_number, seatTable[t].seat_number)
    IN IF candidate = NoSeat THEN [seat |-> NoSeat, seats |-> seatTable]
       ELSE [seat |-> candidate,
             seats |-> [seatTable EXCEPT ![candidate].is_available = FALSE]]

\* ReserveSeat that falls back to any free seat of the class when the named one is taken
ReserveSeatFallback(seatTable, flight_id, seat_class, seat_number) ==
    LET named == CandidateSeat(seatTable, flight_id, seat_class, seat_number)
        candidate == IF named # NoSeat THEN named
                     ELSE CandidateSeat(seatTable, flight_id, seat_class, None)
    IN IF candidate = NoSeat THEN [seat |-> NoSeat, seats |-> seatTable]
       ELSE [seat |-> candidate,
             seats |-> [seatTable EXCEPT ![candidate].is_available = FALSE]]

\* Within one snapshot the flip of the row just selected finds it available; a
\* row rewritten by a concurrent committed transaction makes the transaction
\* stale instead (serialization failure), so the "look for the next option"
\* branch of the loop is not reached and is rendered as "no seat".
ReserveSeat(seatTable, flight_id, seat_class, seat_number) ==
    LET candidate == CandidateSeat(seatTable, flight_id, seat_class, seat_number)
        flip == FlipSeat(seatTable, candidate)
    IN IF candidate = NoSeat THEN [seat |-> NoSeat, seats |-> seatTable]
       ELSE IF flip.updated THEN [seat |-> candidate, seats |-> flip.seats]
       ELSE [seat |-> NoSeat, seats |-> seatTable]

\* AdjustAvailability that gives no seat back to the counter
AdjustAvailabilityDecrementOnly(flightTable, flight_id, seat_class, delta) ==
    IF /\ delta < 0
       /\ flight_id \in DOMAIN flightTable
       /\ flightTable[flight_id].available[seat_class] >= -delta
    THEN [updated |-> TRUE,
          flights |-> [flightTable EXCEPT
                         ![flight_id].available[seat_class] = @ + delta]]
    ELSE [updated |-> delta > 0, flights |-> flightTable]

\* AdjustAvailability whose UPDATE has no `AND column >= abs(delta)`
AdjustAvailabilityUnconditional(flightTable, flight_id, seat_class, delta) ==
    IF flight_id \in DOMAIN flightTable
    THEN [updated |-> TRUE,
          flights |-> [flightTable EXCEPT
                         ![flight_id].available[seat_class] = @ + delta]]
    ELSE [updated |-> FALSE, flights |-> flightTable]

(***************************************************************************)
(* BookingService._adjust_availability: one conditional UPDATE.             *)
(***************************************************************************)
AdjustAvailability(flightTable, flight_id, seat_class, delta) ==
    LET absDelta == IF delta < 0 THEN -delta ELSE delta
    IN IF /\ flight_id \in DOMAIN flightTable
          /\ (delta < 0 => flightTable[flight_id].available[seat_class] >= absDelta)
       THEN [updated |-> TRUE,
             flights |-> [flightTable EXCEPT
                            ![flight_id].available[seat_class] = @ + delta]]
       ELSE [updated |-> FALSE, flights |-> flightTable]

\* ReleaseSeat that leaves the seat row as it is
ReleaseSeatNoop(seatTable, id) == seatTable

\* UPDATE seats SET is_available = TRUE WHERE id = %s
ReleaseSeat(seatTable, id) ==
    IF id \in DOMAIN seatTable THEN [seatTable EXCEPT ![id].is_available = TRUE]
    ELSE seatTable

(***************************************************************************)
(* Loyalty ledger updates (the SELECT / UPDATE frequent_flyers pairs).      *)
(***************************************************************************)
\* AwardPoints that adds the points and leaves the tier column as it was
AwardPointsKeepTier(ffTable, passenger_id, price, seat_class) ==
    IF passenger_id \in DOMAIN ffTable
    THEN LET loyalty == ffTable[passenger_id]
             points == CalculatePoints(price, seat_class, TierMultiplier(loyalty.tier))
         IN [ffTable EXCEPT ![passenger_id].points = @ + points]
    ELSE ffTable

\* confirm_booking lines 751-776: points += calculated, tier recomputed
AwardPoints(ffTable, passenger_id, price, seat_class) ==
    IF passenger_id \in DOMAIN ffTable
    THEN LET loyalty == ffTable[passenger_id]
             points == CalculatePoints(price, seat_class, TierMultiplier(loyalty.tier))
             new_points == loyalty.points + points
         IN [ffTable EXCEPT ![passenger_id] =
                [points |-> new_points, tier |-> CalculateTier(new_points)]]
    ELSE ffTable

\* DeductPoints that lowers the balance and leaves the tier column as it was
DeductPointsKeepTier(ffTable, passenger_id, price, seat_class) ==
    IF passenger_id \in DOMAIN ffTable
    THEN LET loyalty == ffTable[passenger_id]
             points == CalculatePoints(price, seat_class, TierMultiplier(loyalty.tier))
         IN [ffTable EXCEPT ![passenger_id].points =
                IF @ - points > 0 THEN @ - points ELSE 0]
    ELSE ffTable

\* DeductPoints without the floor: the balance may fall below 0
DeductPointsNoFloor(ffTable, passenger_id, price, seat_class) ==
    IF passenger_id \in DOMAIN ffTable
    THEN LET loyalty == ffTable[passenger_id]
             points == CalculatePoints(price, seat_class, TierMultiplier(loyalty.tier))
             new_points == loyalty.points - points
         IN [ffTable EXCEPT ![passenger_id] =
                [points |-> new_points, tier |-> CalculateTier(new_points)]]
    ELSE ffTable

\* _apply_cancellation_effects lines 80-103: points = max(0, points - calculated)
DeductPoints(ffTable, passenger_id, price, seat_class) ==
    IF passenger_id \in DOMAIN ffTable
    THEN LET loyalty == ffTable[passenger_id]
             points == CalculatePoints(price, seat_class, TierMultiplier(loyalty.tier))
             new_points == IF loyalty.points - points > 0
                           THEN loyalty.points - points ELSE 0
         IN [ffTable EXCEPT ![passenger_id] =
                [points |-> new_points, tier |-> CalculateTier(new_points)]]
    ELSE ffTable

\* _apply_cancellation_effects that reverses points whatever the status was
ApplyCancellationEffectsAlwaysDeduct(db, booking_id) ==
    LET booking == db.bookings[booking_id]
    IN IF booking.status = "cancelled" THEN db
       ELSE [db EXCEPT
               !.bookings = [@ EXCEPT ![booking_id].status = "cancelled"],
               !.seats = ReleaseSeat(@, booking.seat_id),
               !.flights = AdjustAvailability(@, booking.flight_id,
                                              booking.seat_class, 1).flights,
               !.frequent_flyers = DeductPoints(@, booking.passenger_id, booking.price,
                                                booking.seat_class)]

(***************************************************************************)
(* BookingService._apply_cancellation_effects.                              *)
(***************************************************************************)
ApplyCancellationEffects(db, booking_id) ==
    LET booking == db.bookings[booking_id]
        old_status == booking.status
    IN IF old_status = "cancelled" THEN db
       ELSE [db EXCEPT
               !.bookings = [@ EXCEPT ![booking_id].status = "cancelled"],
               !.seats = IF booking.seat_id # NoSeat
                         THEN ReleaseSeat(@, booking.seat_id) ELSE @,
               !.flights = AdjustAvailability(@, booking.flight_id,
                                              booking.seat_class, 1).flights,
               !.frequent_flyers =
                   IF old_status = "confirmed" /\ booking.passenger_id \in db.passengers
                   THEN DeductPoints(@, booking.passenger_id, booking.price,
                                     booking.seat_class)
                   ELSE @]

(***************************************************************************)
(* BookingService._create_booking_transaction.  `booking_reference` is the *)
(* reference the draw-until-unused loop ends with.                          *)
(***************************************************************************)
InsertBooking(db, booking_reference, passenger_id, flight_id, seat_id, seat_class, price) ==
    [db EXCEPT !.bookings = Append(@,
        [booking_reference |-> booking_reference, passenger_id |-> passenger_id,
         flight_id |-> flight_id, seat_id |-> seat_id, seat_class |-> seat_class,
         price |-> price, status |-> "pending"])]

\* _create_booking_transaction that takes a seat before it finds the request
\* invalid, and leaves the seat taken when it raises
CreateBookingPartialOnError(db, passenger_id, flight_id, seat_class, specific_seat, auto_assign, booking_reference) ==
    IF passenger_id \notin db.passengers THEN Raise(db, "NotFound")
    ELSE IF flight_id \notin DOMAIN db.flights THEN Raise(db, "NotFound")
    ELSE
      LET reserved == ReserveSeat(db.seats, flight_id, seat_class, specific_seat)
          adjusted == AdjustAvailability(db.flights, flight_id, seat_class, -1)
      IN IF db.flights[flight_id].status # "scheduled" THEN Raise(db, "InvalidState")
         ELSE IF db.flights[flight_id].available[seat_class] <= 0
              THEN Raise(db, "NoAvailability")
         ELSE IF specific_seat # None /\ reserved.seat = NoSeat
              THEN Raise(db, "SeatUnavailable")
         ELSE IF specific_seat = None /\ reserved.seat = NoSeat
              THEN Raise(db, "NoAvailability")
         ELSE IF specific_seat = None /\ ~auto_assign
              THEN [outcome |-> "ValidationError", commit |-> TRUE,
                    db |-> [db EXCEPT !.seats = reserved.seats]]
         ELSE IF ~adjusted.updated THEN Raise(db, "ConcurrentUpdate")
         ELSE Return(InsertBooking(
                [db EXCEPT !.seats = reserved.seats, !.flights = adjusted.flights],
                booking_reference, passenger_id, flight_id, reserved.seat,
                seat_class, db.flights[flight_id].base_price[seat_class]))

\* _create_booking_transaction without the test of the flight's status
CreateBookingNoStatusCheck(db, passenger_id, flight_id, seat_class, specific_seat, auto_assign, booking_reference) ==
    IF passenger_id \notin db.passengers THEN Raise(db, "NotFound")
    ELSE IF flight_id \notin DOMAIN db.flights THEN Raise(db, "NotFound")
    ELSE
      LET reserved == ReserveSeat(db.seats, flight_id, seat_class, specific_seat)
          adjusted == AdjustAvailability(db.flights, flight_id, seat_class, -1)
      IN IF db.flights[flight_id].available[seat_class] <= 0
              THEN Raise(db, "NoAvailability")
         ELSE IF specific_seat # None /\ reserved.seat = NoSeat
              THEN Raise(db, "SeatUnavailable")
         ELSE IF specific_seat = None /\ auto_assign /\ reserved.seat = NoSeat
              THEN Raise(db, "NoAvailability")
         ELSE IF specific_seat = None /\ ~auto_assign THEN Raise(db, "ValidationError")
         ELSE IF ~adjusted.updated THEN Raise(db, "ConcurrentUpdate")
         ELSE Return(InsertBooking(
                [db EXCEPT !.seats = reserved.seats, !.flights = adjusted.flights],
                booking_reference, passenger_id, flight_id, reserved.seat,
                seat_class, db.flights[flight_id].base_price[seat_class]))

CreateBookingTransaction(db, passenger_id, flight_id, seat_class, specific_seat, auto_assign, booking_reference) ==
    IF passenger_id \notin db.passengers THEN Raise(db, "NotFound")
    ELSE IF flight_id \notin DOMAIN db.flights THEN Raise(db, "NotFound")
    ELSE
      LET flight == db.flights[flight_id]
          price == flight.base_price[seat_class]
          reserved == ReserveSeat(db.seats, flight_id, seat_class, specific_seat)
          adjusted == AdjustAvailability(db.flights, flight_id, seat_class, -1)
      IN IF flight.status # "scheduled" THEN Raise(db, "InvalidState")
         ELSE IF flight.available[seat_class] <= 0 THEN Raise(db, "NoAvailability")
         ELSE IF specific_seat # None /\ reserved.seat = NoSeat
              THEN Raise(db, "SeatUnavailable")
         ELSE IF specific_seat = None /\ auto_assign /\ reserved.seat = NoSeat
              THEN Raise(db, "NoAvailability")
         ELSE IF specific_seat = None /\ ~auto_assign THEN Raise(db, "ValidationError")
         ELSE IF ~adjusted.updated
              \* the seat flip is undone and the call raises; the raise rolls back
              THEN Raise(db, "ConcurrentUpdate")
         ELSE Return(InsertBooking(
                [db EXCEPT !.seats = reserved.seats, !.flights = adjusted.flights],
                booking_reference, passenger_id, flight_id, reserved.seat,
                seat_class, price))

\* confirm_booking whose failed-payment branch commits without writing anything
ConfirmBookingFailedPaymentNoop(db, booking_id, payment_successful) ==
    IF booking_id \notin DOMAIN db.bookings THEN Raise(db, "NotFound")
    ELSE IF db.bookings[booking_id].status # "pending" THEN Raise(db, "InvalidState")
    ELSE IF payment_successful
    THEN Return([db EXCEPT
           !.bookings = [@ EXCEPT ![booking_id].status = "confirmed"],
           !.frequent_flyers =
               IF db.bookings[booking_id].passenger_id \in db.passengers
               THEN AwardPoints(@, db.bookings[booking_id].passenger_id,
                                db.bookings[booking_id].price,
                                db.bookings[booking_id].seat_class)
               ELSE @])
    ELSE Return(db)

(***************************************************************************)
(* BookingService.confirm_booking.                                          *)
(***************************************************************************)
ConfirmBookingTransaction(db, booking_id, payment_successful) ==
    IF booking_id \notin DOMAIN db.bookings THEN Raise(db, "NotFound")
    ELSE
      LET booking == db.bookings[booking_id]
      IN IF booking.status # "pending" THEN Raise(db, "InvalidState")
         ELSE IF payment_successful
         THEN Return([db EXCEPT
                !.bookings = [@ EXCEPT ![booking_id].status = "confirmed"],
                !.frequent_flyers =
                    IF booking.passenger_id \in db.passengers
                    THEN AwardPoints(@, booking.passenger_id, booking.price,
                                     booking.seat_class)
                    ELSE @])
         ELSE Return([db EXCEPT
                !.bookings = [@ EXCEPT ![booking_id].status = "cancelled"],
                !.seats = IF booking.seat_id # NoSeat
                          THEN ReleaseSeat(@, booking.seat_id) ELSE @,
                !.flights = AdjustAvailability(@, booking.flight_id,
                                               booking.seat_class, 1).flights])

\* cancel_booking without the test for a completed booking
CancelBookingNoCompletedCheck(db, booking_id) ==
    IF booking_id \notin DOMAIN db.bookings THEN Raise(db, "NotFound")
    ELSE IF db.bookings[booking_id].status = "cancelled" THEN Raise(db, "InvalidState")
    ELSE Return(ApplyCancellationEffects(db, booking_id))

\* cancel_booking that accepts a second cancellation
CancelBookingIdempotent(db, booking_id) ==
    IF booking_id \notin DOMAIN db.bookings THEN Raise(db, "NotFound")
    ELSE IF db.bookings[booking_id].status = "completed" THEN Raise(db, "InvalidState")
    ELSE Return(ApplyCancellationEffects(db, booking_id))

(***************************************************************************)
(* BookingService.cancel_booking.                                           *)
(***************************************************************************)
CancelBookingTransaction(db, booking_id) ==
    IF booking_id \notin DOMAIN db.bookings THEN Raise(db, "NotFound")
    ELSE IF db.bookings[booking_id].status = "cancelled" THEN Raise(db, "InvalidState")
    ELSE IF db.bookings[booking_id].status = "completed" THEN Raise(db, "InvalidState")
    ELSE Return(ApplyCancellationEffects(db, booking_id))

(***************************************************************************)
(* BookingService.cancel_bookings_for_flight: the rows of the SELECT (no   *)
(* ORDER BY: `order` is the order the store returns them in), cancelled one *)
(* after the other; the call returns the count.                             *)
(***************************************************************************)
ActiveBookingsOfFlight(db, flight_id) ==
    {b \in DOMAIN db.bookings :
        /\ db.bookings[b].flight_id = flight_id
        /\ db.bookings[b].status \in ActiveStatus}

\* CancelEach that stops after the first row
CancelEachFirstOnly(db, order) ==
    IF order = <<>> THEN [db |-> db, cancelled |-> 0]
    ELSE [db |-> ApplyCancellationEffects(db, Head(order)), cancelled |-> 1]

RECURSIVE CancelEach(_, _)
CancelEach(db, order) ==
    IF order = <<>> THEN [db |-> db, cancelled |-> 0]
    ELSE LET was == db.bookings[Head(order)].status
             rest == CancelEach(ApplyCancellationEffects(db, Head(order)), Tail(order))
         IN [db |-> rest.db,
             cancelled |-> rest.cancelled + (IF was = "cancelled" THEN 0 ELSE 1)]

CancelBookingsForFlightTransaction(db, order) ==
    LET r == CancelEach(db, order)
    IN [outcome |-> "ok", commit |-> TRUE, db |-> r.db, cancelled |-> r.cancelled]

\* change_seat that gives up the old seat and commits before it fails
ChangeSeatReleaseFirst(db, booking_id, new_seat_number) ==
    IF booking_id \notin DOMAIN db.bookings THEN Raise(db, "NotFound")
    ELSE
      LET booking == db.bookings[booking_id]
          released == [db EXCEPT
                         !.seats = ReleaseSeat(@, booking.seat_id),
                         !.bookings = [@ EXCEPT ![booking_id].seat_id = NoSeat]]
          reserved == ReserveSeat(released.seats, booking.flight_id,
                                  booking.seat_class, new_seat_number)
      IN IF booking.status \notin ActiveStatus THEN Raise(db, "InvalidState")
         ELSE IF reserved.seat = NoSeat
              THEN [outcome |-> "SeatUnavailable", commit |-> TRUE, db |-> released]
         ELSE Return([released EXCEPT
                !.seats = reserved.seats,
                !.bookings = [@ EXCEPT ![booking_id].seat_id = reserved.seat]])

\* change_seat that prices the booking again, at the flight's price of the day
ChangeSeatReprice(db, booking_id, new_seat_number) ==
    IF booking_id \notin DOMAIN db.bookings THEN Raise(db, "NotFound")
    ELSE
      LET booking == db.bookings[booking_id]
          reserved == ReserveSeat(db.seats, booking.flight_id, booking.seat_class,
                                  new_seat_number)
      IN IF booking.status \notin ActiveStatus THEN Raise(db, "InvalidState")
         ELSE IF booking.seat_id \in DOMAIN db.seats
                 /\ db.seats[booking.seat_id].seat_number = new_seat_number
              THEN Return(db)
         ELSE IF reserved.seat = NoSeat THEN Raise(db, "SeatUnavailable")
         ELSE Return([db EXCEPT
                !.seats = ReleaseSeat(reserved.seats, booking.seat_id),
                !.bookings = [@ EXCEPT
                   ![booking_id].seat_id = reserved.seat,
                   ![booking_id].price =
                       db.flights[booking.flight_id].base_price[booking.seat_class]]])

\* change_seat that takes the new seat and never gives the old one back
ChangeSeatKeepOldSeat(db, booking_id, new_seat_number) ==
    IF booking_id \notin DOMAIN db.bookings THEN Raise(db, "NotFound")
    ELSE
      LET booking == db.bookings[booking_id]
          reserved == ReserveSeat(db.seats, booking.flight_id, booking.seat_class,
                                  new_seat_number)
      IN IF booking.status \notin ActiveStatus THEN Raise(db, "InvalidState")
         ELSE IF booking.seat_id \in DOMAIN db.seats
                 /\ db.seats[booking.seat_id].seat_number = new_seat_number
              THEN Return(db)
         ELSE IF reserved.seat = NoSeat THEN Raise(db, "SeatUnavailable")
         ELSE Return([db EXCEPT
                !.seats = reserved.seats,
                !.bookings = [@ EXCEPT ![booking_id].seat_id = reserved.seat]])

(***************************************************************************)
(* BookingService._change_seat_transaction.                                 *)
(***************************************************************************)
ChangeSeatTransaction(db, booking_id, new_seat_number) ==
    IF booking_id \notin DOMAIN db.bookings THEN Raise(db, "NotFound")
    ELSE
      LET booking == db.bookings[booking_id]
          \* LEFT JOIN seats s ON b.seat_id = s.id
          old_seat == IF booking.seat_id \in DOMAIN db.seats
                      THEN booking.seat_id ELSE NoSeat
          reserved == ReserveSeat(db.seats, booking.flight_id, booking.seat_class,
                                  new_seat_number)
      IN IF booking.status \notin ActiveStatus THEN Raise(db, "InvalidState")
         ELSE IF old_seat # NoSeat /\ db.seats[old_seat].seat_number = new_seat_number
              THEN Return(db)
         ELSE IF reserved.seat = NoSeat THEN Raise(db, "SeatUnavailable")
         ELSE Return([db EXCEPT
                !.seats = IF old_seat # NoSeat /\ old_seat # reserved.seat
                          THEN ReleaseSeat(reserved.seats, old_seat)
                          ELSE reserved.seats,
                !.bookings = [@ EXCEPT ![booking_id].seat_id = reserved.seat]])

(***************************************************************************)
(* PaymentService.process_booking_payment: `gateway_success` is the        *)
(* gateway's answer.  On a failed payment the cancellation is committed and *)
(* the call then raises.                                                    *)
(***************************************************************************)
PaymentOfBooking(db, booking_id) ==
    {i \in DOMAIN db.payments : db.payments[i].booking_id = booking_id}

\* process_booking_payment whose raise on a failed payment rolls the transaction back
ProcessBookingPaymentRollbackOnFailure(db, booking_id, gateway_success) ==
    IF booking_id \notin DOMAIN db.bookings THEN Raise(db, "NotFound")
    ELSE IF db.bookings[booking_id].passenger_id \notin db.passengers
         THEN Raise(db, "NotFound")
    ELSE IF db.bookings[booking_id].status # "pending" THEN Raise(db, "InvalidState")
    ELSE IF PaymentOfBooking(db, booking_id) # {} THEN Raise(db, "InvalidState")
    ELSE IF gateway_success
    THEN Return([db EXCEPT
           !.payments = Append(@, [booking_id |-> booking_id,
                                   amount |-> db.bookings[booking_id].price,
                                   status |-> "success"]),
           !.bookings = [@ EXCEPT ![booking_id].status = "confirmed"],
           !.frequent_flyers = AwardPoints(@, db.bookings[booking_id].passenger_id,
                                           db.bookings[booking_id].price,
                                           db.bookings[booking_id].seat_class)])
    ELSE Raise(db, "PaymentFailed")

ProcessBookingPaymentTransaction(db, booking_id, gateway_success) ==
    IF booking_id \notin DOMAIN db.bookings THEN Raise(db, "NotFound")
    \* INNER JOIN passengers
    ELSE IF db.bookings[booking_id].passenger_id \notin db.passengers
         THEN Raise(db, "NotFound")
    ELSE
      LET booking == db.bookings[booking_id]
          paid == [db EXCEPT !.payments = Append(@,
                     [booking_id |-> booking_id, amount |-> booking.price,
                      status |-> IF gateway_success THEN "success" ELSE "failed"])]
      IN IF booking.status # "pending" THEN Raise(db, "InvalidState")
         ELSE IF PaymentOfBooking(db, booking_id) # {} THEN Raise(db, "InvalidState")
         ELSE IF gateway_success
         THEN Return([paid EXCEPT
                !.bookings = [@ EXCEPT ![booking_id].status = "confirmed"],
                !.frequent_flyers = AwardPoints(@, booking.passenger_id,
                                                booking.price, booking.seat_class)])
         ELSE [outcome |-> "PaymentFailed", commit |-> TRUE,
               db |-> [paid EXCEPT
                 !.bookings = [@ EXCEPT ![booking_id].status = "cancelled"],
                 !.seats = IF booking.seat_id \in DOMAIN db.seats
                           THEN ReleaseSeat(@, booking.seat_id) ELSE @,
                 !.flights = AdjustAvailability(@, booking.flight_id,
                                                booking.seat_class, 1).flights]]

\* refund_payment that releases the seat and raises the counter whatever the
\* booking's status is
RefundPaymentAlwaysReleases(db, payment_id, gateway_success) ==
    IF payment_id \notin DOMAIN db.payments THEN Raise(db, "NotFound")
    ELSE IF db.payments[payment_id].status # "success" THEN Raise(db, "InvalidState")
    ELSE IF ~gateway_success THEN Raise(db, "RefundFailed")
    ELSE LET booking == db.bookings[db.payments[payment_id].booking_id]
         IN Return([db EXCEPT
              !.payments[payment_id].status = "refunded",
              !.bookings = [@ EXCEPT ![db.payments[payment_id].booking_id].status =
                                        "cancelled"],
              !.seats = ReleaseSeat(@, booking.seat_id),
              !.flights = AdjustAvailability(@, booking.flight_id,
                                             booking.seat_class, 1).flights,
              !.frequent_flyers =
                  IF booking.status = "confirmed"
                  THEN DeductPoints(@, booking.passenger_id, booking.price,
                                    booking.seat_class)
                  ELSE @])

(***************************************************************************)
(* PaymentService.refund_payment: `gateway_success` is the gateway's       *)
(* answer to the refund.                                                    *)
(***************************************************************************)
RefundPaymentTransaction(db, payment_id, gateway_success) ==
    IF payment_id \notin DOMAIN db.payments THEN Raise(db, "NotFound")
    ELSE
      LET payment == db.payments[payment_id]
          booking == db.bookings[payment.booking_id]
          refunded == [db EXCEPT !.payments[payment_id].status = "refunded"]
      IN IF payment.status # "success" THEN Raise(db, "InvalidState")
         ELSE IF ~gateway_success THEN Raise(db, "RefundFailed")
         ELSE IF booking.status = "confirmed"
         THEN Return([refunded EXCEPT
                !.bookings = [@ EXCEPT ![payment.booking_id].status = "cancelled"],
                !.seats = IF booking.seat_id # NoSeat
                          THEN ReleaseSeat(@, booking.seat_id) ELSE @,
                !.flights = AdjustAvailability(@, booking.flight_id,
                                               booking.seat_class, 1).flights,
                !.frequent_flyers = DeductPoints(@, booking.passenger_id,
                                                 booking.price, booking.seat_class)])
         ELSE Return(refunded)

(***************************************************************************)
(* FlightService.update_flight(flight_id, status=...), the first half of   *)
(* cancel_flight: a READ COMMITTED transaction that writes the flight row.  *)
(***************************************************************************)
UpdateFlightTransaction(db, flight_id, status) ==
    IF flight_id \notin DOMAIN db.flights THEN Raise(db, "NotFound")
    ELSE Return([db EXCEPT !.flights = [@ EXCEPT ![flight_id].status = status]])

(***************************************************************************)
(* The store's conflict detection.  Rows and index ranges are named by     *)
(* keys <<table, id>>.  Footprint is what a running call's transaction     *)
(* reads to decide what it does, and what it writes; WriteSet is what a    *)
(* committing transaction changed.                                          *)
(***************************************************************************)
SeatsOf(db, flight_id, seat_class) ==
    {s \in DOMAIN db.seats :
        db.seats[s].flight_id = flight_id /\ db.seats[s].seat_class = seat_class}

BookingKeys(db, b, kinds) ==
    IF b \in DOMAIN db.bookings
    THEN {k \in {<<"seat", db.bookings[b].seat_id>>,
                 <<"flight", db.bookings[b].flight_id>>,
                 <<"passenger", db.bookings[b].passenger_id>>,
                 <<"ff", db.bookings[b].passenger_id>>} : k[1] \in kinds}
    ELSE {}

Footprint(db, c) ==
    CASE c.op = "create_booking" ->
           {<<"passenger", c.passenger_id>>, <<"flight", c.flight_id>>}
             \cup {<<"seat", s>> : s \in SeatsOf(db, c.flight_id, c.seat_class)}
      [] c.op = "confirm_booking" ->
           {<<"booking", c.booking_id>>}
             \cup BookingKeys(db, c.booking_id,
                    IF c.flag THEN {"passenger", "ff"} ELSE {"seat", "flight"})
      [] c.op = "cancel_booking" ->
           {<<"booking", c.booking_id>>}
             \cup BookingKeys(db, c.booking_id, {"seat", "flight", "passenger", "ff"})
      [] c.op = "change_seat" ->
           {<<"booking", c.booking_id>>}
             \cup BookingKeys(db, c.booking_id, {"seat"})
             \cup (IF c.booking_id \in DOMAIN db.bookings
                   THEN {<<"seat", s>> : s \in
                          {t \in SeatsOf(db, db.bookings[c.booking_id].flight_id,
                                         db.bookings[c.booking_id].seat_class) :
                             db.seats[t].seat_number = c.seat_number}}
                   ELSE {})
      [] c.op = "cancel_bookings_for_flight" ->
           {<<"bookings_of", c.flight_id>>}
             \cup UNION {{<<"booking", b>>}
                           \cup BookingKeys(db, b, {"seat", "flight", "passenger", "ff"}) :
                         b \in ActiveBookingsOfFlight(db, c.flight_id)}
      [] c.op = "process_booking_payment" ->
           {<<"booking", c.booking_id>>, <<"payment_of", c.booking_id>>}
             \cup BookingKeys(db, c.booking_id,
                    IF c.flag THEN {"passenger", "ff"} ELSE {"seat", "flight"})
      [] c.op = "refund_payment" ->
           {<<"payment", c.payment_id>>}
             \cup (IF c.payment_id \in DOMAIN db.payments
                   THEN {<<"booking", db.payments[c.payment_id].booking_id>>}
                          \cup BookingKeys(db, db.payments[c.payment_id].booking_id,
                                           {"seat", "flight", "ff"})
                   ELSE {})
      [] OTHER -> {}

WriteSet(db, db2) ==
    {<<"flight", f>> : f \in {g \in DOMAIN db2.flights : db.flights[g] # db2.flights[g]}}
      \cup {<<"seat", s>> : s \in {t \in DOMAIN db2.seats : db.seats[t] # db2.seats[t]}}
      \cup {<<"ff", q>> : q \in {r \in DOMAIN db2.frequent_flyers :
                                   db.frequent_flyers[r] # db2.frequent_flyers[r]}}
      \cup {<<"booking", b>> : b \in {x \in DOMAIN db2.bookings :
                 x \notin DOMAIN db.bookings \/ db.bookings[x] # db2.bookings[x]}}
      \cup {<<"bookings_of", db2.bookings[b].flight_id>> :
                 b \in DOMAIN db2.bookings \ DOMAIN db.bookings}
      \cup {<<"payment", i>> : i \in {x \in DOMAIN db2.payments :
                 x \notin DOMAIN db.payments \/ db.payments[x] # db2.payments[x]}}
      \cup {<<"payment_of", db2.payments[i].booking_id>> :
                 i \in DOMAIN db2.payments \ DOMAIN db.payments}

(***************************************************************************)
(* Callers.  calls[p] is what thread p is doing: "idle", "running" (its    *)
(* transaction has taken its snapshot), "ready" (the call is made and its   *)
(* next attempt has not begun: before the first attempt, or create_booking  *)
(* and change_seat sleeping between two attempts) or "done" (a one-shot     *)
(* caller holding the result of its call).  `last` is what the caller of    *)
(* the call that finished last got back, when that call finished with no   *)
(* other call under way; it is forgotten when a transaction is begun.      *)
(***************************************************************************)
\* max_retries = 5 in create_booking and in change_seat
max_retries == 5

IdleCall ==
    [pc |-> "idle", op |-> "none", passenger_id |-> 0, flight_id |-> 0,
     seat_class |-> "economy", seat_number |-> None, auto_assign |-> TRUE,
     booking_id |-> 0, payment_id |-> 0, flag |-> TRUE, keep_result |-> FALSE,
     attempt |-> 0, stale |-> FALSE, ref_race |-> FALSE,
     outcome |-> "none", returned |-> 0]

Retryable(op) == op \in {"create_booking", "change_seat"}

\* the calls that have started and not finished
InProgress(c) == c.pc \in {"running", "ready"}

\* Transactions holding a snapshot no commit has invalidated.  A call that
\* takes its snapshot and runs to its end with no commit of another call in
\* between is one step of its operation's action; only a transaction that a
\* later commit makes stale has to be seen holding its snapshot, and of all
\* callers at least one is not made stale.
OpenSnapshots ==
    Cardinality({q \in DOMAIN calls : calls[q].pc = "running" /\ ~calls[q].stale})

SnapshotSlotFree == OpenSnapshots < Cardinality(DOMAIN calls) - 1

\* all orders in which the store may return a set of rows
Orders(S) ==
    {o \in [1..Cardinality(S) -> S] : \A i, j \in DOMAIN o : o[i] = o[j] => i = j}

\* what the transaction of call c does on the tables db of its snapshot (the
\* outcome of create_booking does not depend on the reference drawn, nor what
\* cancel_bookings_for_flight writes on the order of its rows)
OnSnapshot(db, c) ==
    CASE c.op = "create_booking" ->
           CreateBookingTransaction(db, c.passenger_id, c.flight_id, c.seat_class,
                                    c.seat_number, c.auto_assign, 0)
      [] c.op = "confirm_booking" -> ConfirmBookingTransaction(db, c.booking_id, c.flag)
      [] c.op = "cancel_booking" -> CancelBookingTransaction(db, c.booking_id)
      [] c.op = "change_seat" -> ChangeSeatTransaction(db, c.booking_id, c.seat_number)
      [] c.op = "cancel_bookings_for_flight" ->
           LET r == CancelBookingsForFlightTransaction(db,
                       CHOOSE o \in Orders(ActiveBookingsOfFlight(db, c.flight_id)) : TRUE)
           IN [outcome |-> r.outcome, commit |-> r.commit, db |-> r.db]
      [] c.op = "process_booking_payment" ->
           ProcessBookingPaymentTransaction(db, c.booking_id, c.flag)
      [] c.op = "refund_payment" -> RefundPaymentTransaction(db, c.payment_id, c.flag)
      [] OTHER -> Raise(db, "none")

\* the transaction reads its snapshot only: it raises, or finds nothing to write
ReadsOnly(db, c) == ~OnSnapshot(db, c).commit \/ OnSnapshot(db, c).db = db

\* A commit by another transaction, seen from a running transaction whose
\* rows it rewrote.  A transaction that writes meets the rewritten row (or the
\* store's dependency check) and is answered with a serialization failure.  A
\* transaction that only reads keeps reading its snapshot: what it raises or
\* returns is settled, and is kept in `outcome` till the call ends.
Hit(c, db, r) ==
    IF c.pc = "running" /\ r.commit /\ c.outcome = "none" /\ ~c.stale
    THEN LET rewritten == Footprint(db, c) \cap WriteSet(db, r.db) # {}
             drawn == c.op = "create_booking" /\ Len(r.db.bookings) > Len(db.bookings)
         IN IF rewritten /\ ReadsOnly(db, c)
            THEN [c EXCEPT !.outcome = OnSnapshot(db, c).outcome, !.ref_race = FALSE]
            ELSE IF rewritten \/ drawn
            THEN [c EXCEPT !.stale = rewritten, !.ref_race = @ \/ drawn]
            ELSE c
    ELSE c

NoLast == [op |-> "none", outcome |-> "none"]

\* what the caller is left with when its call returns or raises
After(c, outcome, returned) ==
    IF c.keep_result
    THEN [c EXCEPT !.pc = "done", !.attempt = 0, !.stale = FALSE,
                   !.ref_race = FALSE, !.outcome = outcome, !.returned = returned]
    ELSE IdleCall

\* Finish whose retry loop also catches the errors raised inside the
\* transaction: create_booking and change_seat sleep and try again
FinishRetryAnyError(p, c, r, returned) ==
    IF Retryable(c.op) /\ r.outcome # "ok" /\ c.attempt < max_retries - 1
    THEN /\ calls' = [calls EXCEPT ![p] =
                        [c EXCEPT !.pc = "ready", !.attempt = @ + 1,
                                  !.stale = FALSE, !.ref_race = FALSE]]
         /\ UNCHANGED <<tables, last>>
    ELSE /\ passengers' = IF r.commit THEN r.db.passengers ELSE passengers
         /\ flights' = IF r.commit THEN r.db.flights ELSE flights
         /\ seats' = IF r.commit THEN r.db.seats ELSE seats
         /\ bookings' = IF r.commit THEN r.db.bookings ELSE bookings
         /\ frequent_flyers' = IF r.commit THEN r.db.frequent_flyers ELSE frequent_flyers
         /\ payments' = IF r.commit THEN r.db.payments ELSE payments
         /\ calls' = [q \in DOMAIN calls |->
                        IF q = p THEN After(c, r.outcome, returned)
                        ELSE Hit(calls[q], Store, r)]
         /\ last' = IF \E q \in DOMAIN calls \ {p} : InProgress(calls[q])
                    THEN NoLast
                    ELSE [op |-> c.op, outcome |-> r.outcome]

\* the transaction of call c of caller p ends; r is its result on the
\* committed tables, which is its result unless the snapshot settled another
Finish(p, c, res, returned) ==
    LET r == IF c.outcome = "none" THEN res
             ELSE [outcome |-> c.outcome, commit |-> FALSE, db |-> Store]
    IN
    /\ passengers' = IF r.commit THEN r.db.passengers ELSE passengers
    /\ flights' = IF r.commit THEN r.db.flights ELSE flights
    /\ seats' = IF r.commit THEN r.db.seats ELSE seats
    /\ bookings' = IF r.commit THEN r.db.bookings ELSE bookings
    /\ frequent_flyers' = IF r.commit THEN r.db.frequent_flyers ELSE frequent_flyers
    /\ payments' = IF r.commit THEN r.db.payments ELSE payments
    /\ calls' = [q \in DOMAIN calls |->
                   IF q = p
                   THEN After(c, r.outcome, IF c.outcome = "none" THEN returned ELSE 0)
                   ELSE Hit(calls[q], Store, r)]
    /\ last' = IF \E q \in DOMAIN calls \ {p} : InProgress(calls[q])
               THEN NoLast
               ELSE [op |-> c.op, outcome |-> r.outcome]

\* Conflict with no budget: the call sleeps and tries again whatever the attempt
ConflictAlwaysRetry(p, c) ==
    /\ calls' = [calls EXCEPT ![p] =
                   [c EXCEPT !.pc = "ready",
                             !.attempt = IF @ < max_retries - 1 THEN @ + 1 ELSE @,
                             !.stale = FALSE, !.ref_race = FALSE]]
    /\ UNCHANGED <<tables, last>>

\* The store answers a stale transaction with a serialization failure
\* (TransactionRollbackError).  create_booking and change_seat catch it: they
\* sleep and try again while attempt < max_retries - 1, and raise
\* ConcurrencyConflict after the last attempt; the other operations let it through.
Conflict(p, c) ==
    IF Retryable(c.op) /\ c.attempt < max_retries - 1
    THEN /\ calls' = [calls EXCEPT ![p] =
                        [c EXCEPT !.pc = "ready", !.attempt = @ + 1,
                                  !.stale = FALSE, !.ref_race = FALSE]]
         /\ UNCHANGED <<tables, last>>
    ELSE Finish(p, c, Raise(Store, IF Retryable(c.op) THEN "ConcurrencyConflict"
                                   ELSE "TransactionRollbackError"), 0)

(***************************************************************************)
(* The requests callers make.                                               *)
(***************************************************************************)
PassengerIds == {1}

\* the flights callers name; the general specification has flight 1 only
FlightIds == {1, 2}

RequestClasses == {"economy", "first"}


\* 1A is the first-class seat, 2A and 2B are the economy seats
RequestSeatNumbers == {SeatNumber(1, 1), SeatNumber(2, 2)}

ChangeSeatNumbers == {SeatNumber(2, 1), SeatNumber(2, 2)}

RequestSeatChoices ==
    {<<None, TRUE>>, <<None, FALSE>>} \cup {<<n, TRUE>> : n \in RequestSeatNumbers}

CreateRequests ==
    {[IdleCall EXCEPT !.op = "create_booking", !.passenger_id = pid,
                      !.flight_id = f, !.seat_class = cl,
                      !.seat_number = sc[1], !.auto_assign = sc[2]] :
        pid \in PassengerIds, f \in FlightIds, cl \in RequestClasses,
        sc \in RequestSeatChoices}

BookingRequests ==
    {[IdleCall EXCEPT !.op = "confirm_booking", !.booking_id = b, !.flag = ok] :
        b \in 1..MaxBookings, ok \in BOOLEAN}
    \cup {[IdleCall EXCEPT !.op = "cancel_booking", !.booking_id = b] :
        b \in 1..MaxBookings}
    \cup {[IdleCall EXCEPT !.op = "change_seat", !.booking_id = b, !.seat_number = n] :
        b \in 1..MaxBookings, n \in ChangeSeatNumbers}
    \cup {[IdleCall EXCEPT !.op = "cancel_bookings_for_flight", !.flight_id = f] :
        f \in FlightIds}

PaymentRequests ==
    {[IdleCall EXCEPT !.op = "process_booking_payment", !.booking_id = b, !.flag = ok] :
        b \in 1..MaxBookings, ok \in BOOLEAN}
    \cup {[IdleCall EXCEPT !.op = "refund_payment", !.payment_id = i, !.flag = ok] :
        i \in 1..MaxBookings, ok \in BOOLEAN}

Requests == CreateRequests \cup BookingRequests \cup PaymentRequests

\* create_booking calls are issued while bookings can still be created
CreatesInProgress ==
    Cardinality({q \in DOMAIN calls :
                   InProgress(calls[q]) /\ calls[q].op = "create_booking"})

\* and callers name flights of the table
CanIssue(c) ==
    /\ c.op = "create_booking" => Len(bookings) + CreatesInProgress < MaxBookings
    /\ c.op \in {"create_booking", "cancel_bookings_for_flight"}
          => c.flight_id \in DOMAIN flights

\* what caller p can run now under operation op: the call it is in, or a new one
Current(p, op) ==
    IF calls[p].pc = "idle" THEN {c \in Requests : c.op = op /\ CanIssue(c)}
    ELSE IF InProgress(calls[p]) /\ calls[p].op = op THEN {calls[p]}
    ELSE {}

\* FreeRefs of a generator that keeps its first draw, used or not
FreeRefsFirstDraw == 1..(Len(bookings) + RefChoices)

\* the references the loop of _create_booking_transaction can end on: it draws
\* until the reference is not in bookings.  References are only compared for
\* equality, so the draw is taken from the first RefChoices numerals past the
\* number of bookings.
FreeRefs ==
    {r \in 1..(Len(bookings) + RefChoices) :
        \A b \in DOMAIN bookings : bookings[b].booking_reference # r}

(***************************************************************************)
(* Actions.                                                                 *)
(***************************************************************************)
\* A call starts: its transaction takes its snapshot.  A first attempt that
\* only reads gives what it gives when run in one step at the time of its
\* snapshot, so the calls seen holding a snapshot from their first attempt
\* are those that write.
Begin(p) ==
    /\ calls[p].pc = "idle"
    /\ SnapshotSlotFree
    /\ Cardinality({q \in DOMAIN calls : InProgress(calls[q])}) < MaxInFlight
    /\ \E c \in Requests :
          /\ CanIssue(c)
          /\ ~ReadsOnly(Store, c)
          /\ calls' = [calls EXCEPT ![p] = [c EXCEPT !.pc = "running"]]
    /\ last' = NoLast
    /\ UNCHANGED tables

\* the sleep of the retry loop ends: the next attempt takes its snapshot
Resume(p) ==
    /\ calls[p].pc = "ready"
    /\ SnapshotSlotFree
    /\ calls' = [calls EXCEPT ![p].pc = "running"]
    /\ UNCHANGED <<tables, last>>

create_booking(p) ==
    \E c \in Current(p, "create_booking") :
       \/ /\ c.stale
          /\ Conflict(p, c)
       \* the reference drawn was inserted by a transaction that committed meanwhile
       \/ /\ ~c.stale /\ c.ref_race
          /\ Conflict(p, c)
       \/ /\ ~c.stale
          /\ \E ref \in FreeRefs :
                Finish(p, c, CreateBookingTransaction(Store, c.passenger_id,
                          c.flight_id, c.seat_class, c.seat_number, c.auto_assign,
                          ref), 0)

confirm_booking(p) ==
    \E c \in Current(p, "confirm_booking") :
       IF c.stale THEN Conflict(p, c)
       ELSE Finish(p, c, ConfirmBookingTransaction(Store, c.booking_id, c.flag), 0)

cancel_booking(p) ==
    \E c \in Current(p, "cancel_booking") :
       IF c.stale THEN Conflict(p, c)
       ELSE Finish(p, c, CancelBookingTransaction(Store, c.booking_id), 0)

change_seat(p) ==
    \E c \in Current(p, "change_seat") :
       IF c.stale THEN Conflict(p, c)
       ELSE Finish(p, c, ChangeSeatTransaction(Store, c.booking_id, c.seat_number), 0)

cancel_bookings_for_flight(p) ==
    \E c \in Current(p, "cancel_bookings_for_flight") :
       IF c.stale THEN Conflict(p, c)
       ELSE \E order \in Orders(ActiveBookingsOfFlight(Store, c.flight_id)) :
              LET r == CancelBookingsForFlightTransaction(Store, order)
              IN Finish(p, c, r, r.cancelled)

process_booking_payment(p) ==
    \E c \in Current(p, "process_booking_payment") :
       IF c.stale THEN Conflict(p, c)
       ELSE Finish(p, c, ProcessBookingPaymentTransaction(Store, c.booking_id, c.flag), 0)

refund_payment(p) ==
    \E c \in Current(p, "refund_payment") :
       IF c.stale THEN Conflict(p, c)
       ELSE Finish(p, c, RefundPaymentTransaction(Store, c.payment_id, c.flag), 0)

(***************************************************************************)
(* The general specification: one flight set up by create_flight, one      *)
(* passenger with or without a loyalty account, NumProcs callers.           *)
(***************************************************************************)
Aircraft1 ==
    [economy_seats |-> EconomySeats, business_seats |-> 0,
     first_class_seats |-> FirstSeats]

\* base prices in cents: 100.50, 300.00, 1200.00
BasePrices == [economy |-> 10050, business |-> 30000, first |-> 120000]

InitialPoints == {24950}

InitTables ==
    /\ passengers = PassengerIds
    /\ flights = <<CreateFlight(Aircraft1, BasePrices)>>
    /\ seats = GenerateSeats(1, Aircraft1)
    /\ bookings = <<>>
    /\ payments = <<>>
    /\ \/ frequent_flyers = <<>>
       \/ \E ip \in InitialPoints :
             frequent_flyers = [pid \in PassengerIds |->
                                  [points |-> ip, tier |-> CalculateTier(ip)]]

Init ==
    /\ InitTables
    /\ calls = [p \in 1..NumProcs |-> IdleCall]
    /\ last = NoLast

\* a caller runs one of the seven operations
Operation ==
    \/ \E p \in DOMAIN calls : create_booking(p)
    \/ \E p \in DOMAIN calls : confirm_booking(p)
    \/ \E p \in DOMAIN calls : cancel_booking(p)
    \/ \E p \in DOMAIN calls : change_seat(p)
    \/ \E p \in DOMAIN calls : cancel_bookings_for_flight(p)
    \/ \E p \in DOMAIN calls : process_booking_payment(p)
    \/ \E p \in DOMAIN calls : refund_payment(p)

Next ==
    \/ \E p \in DOMAIN calls : Begin(p)
    \/ \E p \in DOMAIN calls : Resume(p)
    \/ Operation

Spec == Init /\ [][Next]_vars

(***************************************************************************)
(* Bookings are marked COMPLETED from outside these services: no operation  *)
(* here writes that status, and cancel_booking, confirm_booking and         *)
(* change_seat test for it.  MarkCompleted is that outside step, on a       *)
(* confirmed booking; it writes the status column and nothing else.  In    *)
(* SpecOutOfBand it happens between calls that run one after the other.     *)
(***************************************************************************)
MarkCompleted(b) ==
    /\ b \in DOMAIN bookings
    /\ bookings[b].status = "confirmed"
    /\ bookings' = [bookings EXCEPT ![b].status = "completed"]
    /\ UNCHANGED <<passengers, flights, seats, frequent_flyers, payments, calls, last>>

NextOutOfBand ==
    \/ Operation
    \/ \E b \in DOMAIN bookings : MarkCompleted(b)

SpecOutOfBand == Init /\ [][NextOutOfBand]_vars

(***************************************************************************)
(* The race of tests/test_concurrency.py: NumRacers threads each call       *)
(* create_booking once, with automatic seat assignment, for the economy     *)
(* class of one flight that has RaceSeats economy seats.                    *)
(***************************************************************************)
NumRacers == 7

RaceSeats == 6

RaceAircraft(k) ==
    [economy_seats |-> k, business_seats |-> 0, first_class_seats |-> 0]

RaceCall(seat_number) ==
    [IdleCall EXCEPT !.pc = "ready", !.op = "create_booking", !.passenger_id = 1,
                     !.flight_id = 1, !.seat_class = "economy",
                     !.seat_number = seat_number, !.auto_assign = TRUE,
                     !.keep_result = TRUE]

\* a flight of k economy seats, all available, and the racers' calls made
RaceStart(k, seat_number) ==
    /\ passengers = PassengerIds
    /\ flights = <<CreateFlight(RaceAircraft(k), BasePrices)>>
    /\ seats = GenerateSeats(1, RaceAircraft(k))
    /\ bookings = <<>>
    /\ payments = <<>>
    /\ frequent_flyers = <<>>
    /\ calls = [p \in 1..NumRacers |-> RaceCall(seat_number)]
    /\ last = NoLast

InitRace == RaceStart(RaceSeats, None)

\* The racers are alike, so they are numbered in the order of their first
\* steps: a racer takes its first step when the racers before it have taken theirs.
InTurn(p) ==
    \A q \in DOMAIN calls :
       q < p => ~(calls[q].pc = "ready" /\ calls[q].attempt = 0)

NextRace ==
    \/ \E p \in DOMAIN calls : InTurn(p) /\ Resume(p)
    \/ \E p \in DOMAIN calls : InTurn(p) /\ create_booking(p)

SpecRace == InitRace /\ [][NextRace]_vars

(***************************************************************************)
(* The race for one seat: the racers all ask for the same seat of a flight  *)
(* that has from one to SeatRaceSeats economy seats.                        *)
(***************************************************************************)
SeatRaceSeats == 2

InitSeatRace ==
    \E k \in 1..SeatRaceSeats : \E i \in 1..k :
       RaceStart(k, GenerateSeats(1, RaceAircraft(k))[i].seat_number)

SpecSeatRace == InitSeatRace /\ [][NextRace]_vars

(***************************************************************************)
(* Two flights, the second on a one-seat aircraft, and flights being        *)
(* cancelled: update_flight(f, status='cancelled') runs READ COMMITTED, in  *)
(* one step, and its commit is seen by the transactions under way.          *)
(***************************************************************************)
update_flight(p) ==
    /\ calls[p].pc = "idle"
    /\ \E f \in FlightIds :
          Finish(p, [IdleCall EXCEPT !.op = "update_flight", !.flight_id = f],
                 UpdateFlightTransaction(Store, f, "cancelled"), 0)

\* a create_booking takes its snapshot; the other calls run uninterrupted
BeginCreate(p) == Begin(p) /\ calls'[p].op = "create_booking"

Aircraft2 == [economy_seats |-> 1, business_seats |-> 0, first_class_seats |-> 0]

InitFlights ==
    /\ passengers = PassengerIds
    /\ flights = <<CreateFlight(Aircraft1, BasePrices), CreateFlight(Aircraft2, BasePrices)>>
    /\ seats = GenerateSeats(1, Aircraft1) \o GenerateSeats(2, Aircraft2)
    /\ bookings = <<>>
    /\ payments = <<>>
    /\ \/ frequent_flyers = <<>>
       \/ \E ip \in InitialPoints :
             frequent_flyers = [pid \in PassengerIds |->
                                  [points |-> ip, tier |-> CalculateTier(ip)]]
    /\ calls = [p \in 1..NumProcs |-> IdleCall]
    /\ last = NoLast

NextFlights ==
    \/ \E p \in DOMAIN calls : BeginCreate(p)
    \/ \E p \in DOMAIN calls : Resume(p)
    \/ Operation
    \/ \E p \in DOMAIN calls : update_flight(p)

SpecFlights == InitFlights /\ [][NextFlights]_vars

(***************************************************************************)
(* The retry loops under disturbance.  Booking 1 of flight 1 exists, made   *)
(* by create_booking with automatic assignment.  Caller 1 has called       *)
(* change_seat for it, caller 2 has called create_booking; caller 3 runs    *)
(* any operation, again and again, each in one uninterrupted transaction.   *)
(* A thread that can run does run: the sleep of the retry loop ends and a   *)
(* transaction under way reaches its end.                                   *)
(***************************************************************************)
InitRetry ==
    LET made == CreateBookingTransaction(
                   [passengers |-> PassengerIds,
                    flights |-> <<CreateFlight(Aircraft1, BasePrices)>>,
                    seats |-> GenerateSeats(1, Aircraft1),
                    bookings |-> <<>>, frequent_flyers |-> <<>>, payments |-> <<>>],
                   1, 1, "economy", None, TRUE, 1).db
    IN /\ passengers = made.passengers
       /\ flights = made.flights
       /\ seats = made.seats
       /\ bookings = made.bookings
       /\ frequent_flyers = made.frequent_flyers
       /\ payments = made.payments
       /\ calls = <<[IdleCall EXCEPT !.pc = "ready", !.op = "change_seat",
                                      !.booking_id = 1,
                                      !.seat_number = SeatNumber(2, 2),
                                      !.keep_result = TRUE],
                     RaceCall(None),
                     IdleCall>>
       /\ last = NoLast

NextRetry ==
    \/ \E p \in DOMAIN calls : Resume(p)
    \/ Operation

Step(p) ==
    Resume(p) \/ create_booking(p) \/ change_seat(p)

SpecRetry ==
    InitRetry /\ [][NextRetry]_vars /\ WF_vars(Step(1)) /\ WF_vars(Step(2))

(***************************************************************************)
(* The loyalty arithmetic: one pending booking of each class at each of     *)
(* PointPrices (cents), made by create_booking on a flight with that base   *)
(* price, for a passenger whose account is at the foot of a tier or just    *)
(* below the next; one caller then confirms, pays for, cancels or refunds   *)
(* the booking.                                                             *)
(***************************************************************************)
PointPrices == {99, 100, 9999, 10050, 33333, 77777, 120000, 120099}

InitialBalances == {0, 24950, 25000, 49950, 50000, 99950, 100000}

PointsAircraft == [economy_seats |-> 1, business_seats |-> 1, first_class_seats |-> 1]

InitPoints ==
    \E pr \in PointPrices : \E cl \in SeatClass : \E ip \in InitialBalances :
       LET made == CreateBookingTransaction(
                      [passengers |-> PassengerIds,
                       flights |-> <<CreateFlight(PointsAircraft,
                                                  [c \in SeatClass |-> pr])>>,
                       seats |-> GenerateSeats(1, PointsAircraft),
                       bookings |-> <<>>,
                       frequent_flyers |-> [pid \in PassengerIds |->
                                              [points |-> ip, tier |-> CalculateTier(ip)]],
                       payments |-> <<>>],
                      1, 1, cl, None, TRUE, 1).db
       IN /\ passengers = made.passengers
          /\ flights = made.flights
          /\ seats = made.seats
          /\ bookings = made.bookings
          /\ frequent_flyers = made.frequent_flyers
          /\ payments = made.payments
          /\ calls = <<IdleCall>>
          /\ last = NoLast

NextPoints ==
    \/ \E p \in DOMAIN calls : confirm_booking(p)
    \/ \E p \in DOMAIN calls : cancel_booking(p)
    \/ \E p \in DOMAIN calls : cancel_bookings_for_flight(p)
    \/ \E p \in DOMAIN calls : process_booking_payment(p)
    \/ \E p \in DOMAIN calls : refund_payment(p)

SpecPoints == InitPoints /\ [][NextPoints]_vars

(***************************************************************************)
(* The ledger of a passenger who joins the loyalty programme late.  Two    *)
(* flights with one economy seat each, at 100.50 and 150.00; the passenger  *)
(* has no loyalty account until PassengerService.create_loyalty_account     *)
(* inserts one (0 points, bronze).  One caller runs the operations one      *)
(* after the other.                                                         *)
(***************************************************************************)
CreateLoyaltyAccountTransaction(db, passenger_id) ==
    IF passenger_id \notin db.passengers THEN Raise(db, "NotFound")
    ELSE IF passenger_id \in DOMAIN db.frequent_flyers THEN Raise(db, "AlreadyExists")
    ELSE Return([db EXCEPT !.frequent_flyers =
            [q \in DOMAIN @ \cup {passenger_id} |->
                IF q = passenger_id THEN [points |-> 0, tier |-> "bronze"] ELSE @[q]]])

create_loyalty_account(p) ==
    /\ calls[p].pc = "idle"
    /\ \E pid \in PassengerIds :
          Finish(p, [IdleCall EXCEPT !.op = "create_loyalty_account", !.passenger_id = pid],
                 CreateLoyaltyAccountTransaction(Store, pid), 0)

LedgerPrices == [economy |-> 15000, business |-> 30000, first |-> 120000]

InitLedger ==
    /\ passengers = PassengerIds
    /\ flights = <<CreateFlight(Aircraft2, BasePrices), CreateFlight(Aircraft2, LedgerPrices)>>
    /\ seats = GenerateSeats(1, Aircraft2) \o GenerateSeats(2, Aircraft2)
    /\ bookings = <<>>
    /\ payments = <<>>
    /\ frequent_flyers = <<>>
    /\ calls = <<IdleCall>>
    /\ last = NoLast

NextLedger ==
    \/ Operation
    \/ \E p \in DOMAIN calls : create_loyalty_account(p)

SpecLedger == InitLedger /\ [][NextLedger]_vars

(***************************************************************************)
(* Prices that change: FlightService.update_flight(f, base_price_...=...)  *)
(* raises the prices of flight 1, READ COMMITTED and in one step, while     *)
(* callers book, confirm, pay, change seats and cancel.                     *)
(***************************************************************************)
UpdateFlightPricesTransaction(db, flight_id, base_price) ==
    IF flight_id \notin DOMAIN db.flights THEN Raise(db, "NotFound")
    ELSE Return([db EXCEPT !.flights = [@ EXCEPT ![flight_id].base_price = base_price]])

\* base prices in cents: 120.00, 360.00, 1500.00
RaisedPrices == [economy |-> 12000, business |-> 36000, first |-> 150000]

update_flight_prices(p) ==
    /\ calls[p].pc = "idle"
    /\ \E f \in DOMAIN flights :
          Finish(p, [IdleCall EXCEPT !.op = "update_flight", !.flight_id = f],
                 UpdateFlightPricesTransaction(Store, f, RaisedPrices), 0)

InitPrices ==
    /\ passengers = PassengerIds
    /\ flights = <<CreateFlight(Aircraft1, BasePrices)>>
    /\ seats = GenerateSeats(1, Aircraft1)
    /\ bookings = <<>>
    /\ payments = <<>>
    /\ frequent_flyers = <<>>
    /\ calls = [p \in 1..NumProcs |-> IdleCall]
    /\ last = NoLast

NextPrices ==
    \/ \E p \in DOMAIN calls : BeginCreate(p)
    \/ \E p \in DOMAIN calls : Resume(p)
    \/ Operation
    \/ \E p \in DOMAIN calls : update_flight_prices(p)

SpecPrices == InitPrices /\ [][NextPrices]_vars

(***************************************************************************)
(* A long cabin: one flight whose first class has CabinSeats seats, rows 1  *)
(* to 10, so that the seat numbers 10A and 1A..9D are compared as strings.  *)
(* Callers book and cancel; a create_booking may hold its snapshot while    *)
(* another call commits.                                                    *)
(***************************************************************************)
CabinSeats == 37

CabinAircraft ==
    [economy_seats |-> 0, business_seats |-> 0, first_class_seats |-> CabinSeats]

InitCabin ==
    /\ passengers = PassengerIds
    /\ flights = <<CreateFlight(CabinAircraft, BasePrices)>>
    /\ seats = GenerateSeats(1, CabinAircraft)
    /\ bookings = <<>>
    /\ payments = <<>>
    /\ frequent_flyers = <<>>
    /\ calls = [p \in 1..NumProcs |-> IdleCall]
    /\ last = NoLast

NextCabin ==
    \/ \E p \in DOMAIN calls : BeginCreate(p)
    \/ \E p \in DOMAIN calls : Resume(p)
    \/ \E p \in DOMAIN calls : create_booking(p)
    \/ \E p \in DOMAIN calls : cancel_booking(p)

SpecCabin == InitCabin /\ [][NextCabin]_vars

(***************************************************************************)
(* The race of test_concurrent_seat_changes: NumChangers passengers each    *)
(* hold a booking made by create_booking with automatic assignment on one   *)
(* flight that has SpareSeats economy seats more than bookings; their       *)
(* threads each call change_seat once, all for the same available seat.     *)
(***************************************************************************)
NumChangers == 4

SpareSeats == 2

ChangeAircraft ==
    [economy_seats |-> NumChangers + SpareSeats, business_seats |-> 0,
     first_class_seats |-> 0]

\* the tables after passengers 1..k have each booked an economy seat of flight 1
RECURSIVE Booked(_)
Booked(k) ==
    IF k = 0
    THEN [passengers |-> 1..NumChangers,
          flights |-> <<CreateFlight(ChangeAircraft, BasePrices)>>,
          seats |-> GenerateSeats(1, ChangeAircraft),
          bookings |-> <<>>, frequent_flyers |-> <<>>, payments |-> <<>>]
    ELSE CreateBookingTransaction(Booked(k - 1), k, 1, "economy", None, TRUE, k).db

ChangeCall(booking_id, seat_number) ==
    [IdleCall EXCEPT !.pc = "ready", !.op = "change_seat", !.booking_id = booking_id,
                     !.seat_number = seat_number, !.keep_result = TRUE]

InitSeatChange ==
    LET made == Booked(NumChangers)
    IN /\ passengers = made.passengers
       /\ flights = made.flights
       /\ seats = made.seats
       /\ bookings = made.bookings
       /\ frequent_flyers = made.frequent_flyers
       /\ payments = made.payments
       /\ \E target \in {t \in DOMAIN made.seats : made.seats[t].is_available} :
             calls = [p \in 1..NumChangers |->
                        ChangeCall(p, made.seats[target].seat_number)]
       /\ last = NoLast

NextSeatChange ==
    \/ \E p \in DOMAIN calls : Resume(p)
    \/ \E p \in DOMAIN calls : change_seat(p)

SpecSeatChange == InitSeatChange /\ [][NextSeatChange]_vars

(***************************************************************************)
(* A payment under disturbance.  Booking 1 of flight 1 is pending, made by  *)
(* create_booking with automatic assignment.  Caller 1 has called           *)
(* process_booking_payment for it and keeps what the call gives; `flag` is  *)
(* what the gateway answers when the call asks it.  Caller 2 runs any       *)
(* operation, again and again, each in one uninterrupted transaction.       *)
(***************************************************************************)
PaymentCall(booking_id, gateway_success) ==
    [IdleCall EXCEPT !.pc = "ready", !.op = "process_booking_payment",
                     !.booking_id = booking_id, !.flag = gateway_success,
                     !.keep_result = TRUE]

InitPayment ==
    \E ff \in {<<>>} \cup {[pid \in PassengerIds |-> [points |-> ip, tier |-> CalculateTier(ip)]] :
                              ip \in InitialPoints} :
       LET made == CreateBookingTransaction(
                      [passengers |-> PassengerIds,
                       flights |-> <<CreateFlight(Aircraft1, BasePrices)>>,
                       seats |-> GenerateSeats(1, Aircraft1),
                       bookings |-> <<>>, frequent_flyers |-> ff, payments |-> <<>>],
                      1, 1, "economy", None, TRUE, 1).db
       IN /\ passengers = made.passengers
          /\ flights = made.flights
          /\ seats = made.seats
          /\ bookings = made.bookings
          /\ frequent_flyers = made.frequent_flyers
          /\ payments = made.payments
          /\ \E gateway_success \in BOOLEAN :
                calls = <<PaymentCall(1, gateway_success), IdleCall>>
          /\ last = NoLast

NextPayment ==
    \/ \E p \in DOMAIN calls : Resume(p)
    \/ Operation

SpecPayment == InitPayment /\ [][NextPayment]_vars

(***************************************************************************)
(* FlightService.cancel_flight among bookers.  cancel_flight is two         *)
(* transactions one after the other: update_flight(f, status='cancelled'),  *)
(* READ COMMITTED, and then BookingService.cancel_bookings_for_flight(f),   *)
(* SERIALIZABLE, whose result is dropped; what either raises is what        *)
(* cancel_flight raises.  Flight 1 has no booking, a pending one or a       *)
(* confirmed one.  Caller 1 has called cancel_flight(1) and keeps what the  *)
(* call gives, caller 2 has called create_booking for flight 1, caller 3    *)
(* calls create_booking again and again.                                    *)
(***************************************************************************)
CancelFlightCall(flight_id) ==
    [IdleCall EXCEPT !.pc = "ready", !.op = "cancel_flight", !.flight_id = flight_id,
                     !.keep_result = TRUE]

\* the first half: the flight row is written and committed; the call goes on
\* to cancel_bookings_for_flight, unless update_flight raised
cancel_flight(p) ==
    /\ calls[p].pc = "ready" /\ calls[p].op = "cancel_flight"
    /\ LET c == calls[p]
           r == UpdateFlightTransaction(Store, c.flight_id, "cancelled")
       IN IF ~r.commit THEN Finish(p, c, r, 0)
          ELSE /\ flights' = r.db.flights
               /\ calls' = [q \in DOMAIN calls |->
                              IF q = p THEN [c EXCEPT !.op = "cancel_bookings_for_flight"]
                              ELSE Hit(calls[q], Store, r)]
               /\ last' = NoLast
               /\ UNCHANGED <<passengers, seats, bookings, frequent_flyers, payments>>

\* the tables of the general specification, and those after create_booking
\* and after create_booking and confirm_booking
BookedTables ==
    LET empty == {[passengers |-> PassengerIds,
                   flights |-> <<CreateFlight(Aircraft1, BasePrices)>>,
                   seats |-> GenerateSeats(1, Aircraft1),
                   bookings |-> <<>>, frequent_flyers |-> ff, payments |-> <<>>] :
                    ff \in {<<>>} \cup {[pid \in PassengerIds |->
                                            [points |-> ip, tier |-> CalculateTier(ip)]] :
                                          ip \in InitialPoints}}
        pending == {CreateBookingTransaction(db, 1, 1, "economy", None, TRUE, 1).db :
                      db \in empty}
        confirmed == {ConfirmBookingTransaction(db, 1, TRUE).db : db \in pending}
    IN empty \cup pending \cup confirmed

InitCancelFlight ==
    \E db \in BookedTables :
       /\ passengers = db.passengers
       /\ flights = db.flights
       /\ seats = db.seats
       /\ bookings = db.bookings
       /\ frequent_flyers = db.frequent_flyers
       /\ payments = db.payments
       /\ calls = <<CancelFlightCall(1), RaceCall(None), IdleCall>>
       /\ last = NoLast

NextCancelFlight ==
    \/ \E p \in DOMAIN calls : Resume(p)
    \/ \E p \in DOMAIN calls : create_booking(p)
    \/ cancel_flight(1)
    \/ cancel_bookings_for_flight(1)

SpecCancelFlight == InitCancelFlight /\ [][NextCancelFlight]_vars

(***************************************************************************)
(* PassengerService.delete_passenger: DELETE FROM passengers, READ          *)
(* COMMITTED and in one step.  The foreign keys bookings.passenger_id,      *)
(* frequent_flyers.passenger_id and payments.booking_id are ON DELETE       *)
(* CASCADE: the passenger's bookings, their payments and the loyalty        *)
(* account go with the passenger; no seat row and no flight row is written. *)
(* Row ids are positions in the tables of the model; the passenger of the   *)
(* model is the only one, so no row is left to keep its id.  One caller     *)
(* runs the operations one after the other.                                 *)
(***************************************************************************)
DeletePassengerTransaction(db, passenger_id) ==
    IF passenger_id \notin db.passengers THEN Raise(db, "NotFound")
    ELSE Return([db EXCEPT
           !.passengers = @ \ {passenger_id},
           !.bookings = SelectSeq(@, LAMBDA b : b.passenger_id # passenger_id),
           !.payments = SelectSeq(@, LAMBDA pay :
                           db.bookings[pay.booking_id].passenger_id # passenger_id),
           !.frequent_flyers = [q \in DOMAIN @ \ {passenger_id} |-> @[q]]])

delete_passenger(p) ==
    /\ calls[p].pc = "idle"
    /\ \E pid \in PassengerIds :
          Finish(p, [IdleCall EXCEPT !.op = "delete_passenger", !.passenger_id = pid],
                 DeletePassengerTransaction(Store, pid), 0)

InitDelete ==
    /\ InitTables
    /\ calls = <<IdleCall>>
    /\ last = NoLast

NextDelete ==
    \/ Operation
    \/ \E p \in DOMAIN calls : delete_passenger(p)

SpecDelete == InitDelete /\ [][NextDelete]_vars

(***************************************************************************)
(* One caller at the booking desk: create_booking, confirm_booking,         *)
(* cancel_booking and change_seat, each call running to its end before the  *)
(* next is made.  What one call does to the tables is seen here without     *)
(* other calls under way.                                                   *)
(***************************************************************************)
InitDesk == InitTables /\ calls = <<IdleCall>> /\ last = NoLast

NextDesk ==
    \/ \E p \in DOMAIN calls : create_booking(p)
    \/ \E p \in DOMAIN calls : confirm_booking(p)
    \/ \E p \in DOMAIN calls : cancel_booking(p)
    \/ \E p \in DOMAIN calls : change_seat(p)

SpecDesk == InitDesk /\ [][NextDesk]_vars

(***************************************************************************)
(* The same desk with NumProcs callers: a create_booking or a change_seat   *)
(* (the two operations with a retry loop) may hold its snapshot while the   *)
(* other callers' calls commit.                                             *)
(***************************************************************************)
BeginRetryable(p) == Begin(p) /\ Retryable(calls'[p].op)

NextDeskRace ==
    \/ \E p \in DOMAIN calls : BeginRetryable(p)
    \/ \E p \in DOMAIN calls : Resume(p)
    \/ \E p \in DOMAIN calls : create_booking(p)
    \/ \E p \in DOMAIN calls : confirm_booking(p)
    \/ \E p \in DOMAIN calls : cancel_booking(p)
    \/ \E p \in DOMAIN calls : change_seat(p)

SpecDeskRace == Init /\ [][NextDeskRace]_vars

(***************************************************************************)
(* One caller at the till: bookings are made, paid for through              *)
(* PaymentService, cancelled and refunded, one call after the other.        *)
(***************************************************************************)
NextTill ==
    \/ \E p \in DOMAIN calls : create_booking(p)
    \/ \E p \in DOMAIN calls : cancel_booking(p)
    \/ \E p \in DOMAIN calls : process_booking_payment(p)
    \/ \E p \in DOMAIN calls : refund_payment(p)

SpecTill == InitDesk /\ [][NextTill]_vars

(***************************************************************************)
(* Two flights and one caller: bookings are made on both, confirmed, and    *)
(* the bookings of a flight are cancelled in bulk.                          *)
(***************************************************************************)
InitBulk ==
    /\ passengers = PassengerIds
    /\ flights = <<CreateFlight(Aircraft1, BasePrices), CreateFlight(Aircraft2, BasePrices)>>
    /\ seats = GenerateSeats(1, Aircraft1) \o GenerateSeats(2, Aircraft2)
    /\ bookings = <<>>
    /\ payments = <<>>
    /\ \/ frequent_flyers = <<>>
       \/ \E ip \in InitialPoints :
             frequent_flyers = [pid \in PassengerIds |->
                                  [points |-> ip, tier |-> CalculateTier(ip)]]
    /\ calls = <<IdleCall>>
    /\ last = NoLast

NextBulk ==
    \/ \E p \in DOMAIN calls : create_booking(p)
    \/ \E p \in DOMAIN calls : confirm_booking(p)
    \/ \E p \in DOMAIN calls : cancel_bookings_for_flight(p)

SpecBulk == InitBulk /\ [][NextBulk]_vars

(***************************************************************************)
(* Two flights and NumProcs callers who make and cancel bookings: a         *)
(* create_booking holds its snapshot while another call commits, so that    *)
(* the reference it drew may be taken meanwhile.                            *)
(***************************************************************************)
InitRefs ==
    /\ passengers = PassengerIds
    /\ flights = <<CreateFlight(Aircraft1, BasePrices), CreateFlight(Aircraft2, BasePrices)>>
    /\ seats = GenerateSeats(1, Aircraft1) \o GenerateSeats(2, Aircraft2)
    /\ bookings = <<>>
    /\ payments = <<>>
    /\ frequent_flyers = <<>>
    /\ calls = [p \in 1..NumProcs |-> IdleCall]
    /\ last = NoLast

NextRefs ==
    \/ \E p \in DOMAIN calls : BeginCreate(p)
    \/ \E p \in DOMAIN calls : Resume(p)
    \/ \E p \in DOMAIN calls : create_booking(p)
    \/ \E p \in DOMAIN calls : cancel_booking(p)

SpecRefs == InitRefs /\ [][NextRefs]_vars

(***************************************************************************)
(* Properties.                                                              *)
(***************************************************************************)
ActiveBookings == {b \in DOMAIN bookings : bookings[b].status \in ActiveStatus}

ActiveIn(flight_id, seat_class) ==
    {b \in ActiveBookings :
        bookings[b].flight_id = flight_id /\ bookings[b].seat_class = seat_class}

\* C1: for every flight and class, the available counter plus the number of
\* pending or confirmed bookings of that flight and class equals the capacity
\* of the class, in every state the seven operations can reach.
C1_CounterPlusActiveIsCapacity ==
    \A f \in DOMAIN flights : \A cl \in SeatClass :
       flights[f].available[cl] + Cardinality(ActiveIn(f, cl))
          = Capacity(flights[f], cl)

\* a class with one seat held by an active booking and one given back by a
\* cancelled booking
C1_Witness ==
    \E f \in DOMAIN flights : \E cl \in SeatClass :
       /\ ActiveIn(f, cl) # {}
       /\ flights[f].available[cl] > 0
       /\ \E b \in DOMAIN bookings :
             /\ bookings[b].status = "cancelled"
             /\ bookings[b].flight_id = f /\ bookings[b].seat_class = cl

\* C2: no two pending or confirmed bookings refer to the same seat.
C2_NoSharedSeat ==
    \A a, b \in ActiveBookings :
       a # b /\ bookings[a].seat_id # NoSeat => bookings[a].seat_id # bookings[b].seat_id

\* two active bookings of one flight and class, the second just created
C2_Witness ==
    /\ last = [op |-> "create_booking", outcome |-> "ok"]
    /\ \E a, b \in ActiveBookings :
          /\ a # b
          /\ bookings[a].flight_id = bookings[b].flight_id
          /\ bookings[a].seat_class = bookings[b].seat_class

C4_CreateEffects ==
    LET nb == bookings'[Len(bookings')]
    IN /\ ( /\ last' = [op |-> "create_booking", outcome |-> "ok"]
            /\ vars' # vars )
          => Len(bookings') = Len(bookings) + 1
       /\ Len(bookings') # Len(bookings)
          => /\ bookings' = Append(bookings, nb)
             /\ nb.status = "pending"
             /\ nb.seat_id \in DOMAIN seats
             /\ seats[nb.seat_id].is_available
             /\ seats[nb.seat_id].flight_id = nb.flight_id
             /\ seats[nb.seat_id].seat_class = nb.seat_class
             /\ seats' = [seats EXCEPT ![nb.seat_id].is_available = FALSE]
             /\ flights' = [flights EXCEPT
                              ![nb.flight_id].available[nb.seat_class] = @ - 1]
             /\ frequent_flyers' = frequent_flyers
             /\ payments' = payments
             /\ passengers' = passengers

\* C4: a successful create_booking inserts exactly one booking, PENDING, that
\* holds one seat; it flips exactly that seat from available to unavailable,
\* takes exactly 1 from the counter of the booking's flight and class, and
\* changes no other booking, seat, counter, payment or loyalty account.
C4_Create == [][C4_CreateEffects]_vars

\* create_booking has just succeeded beside a confirmed booking of a passenger
\* who has a loyalty account
C4_Witness ==
    /\ last = [op |-> "create_booking", outcome |-> "ok"]
    /\ bookings[Len(bookings)].status = "pending"
    /\ \E b \in DOMAIN bookings : bookings[b].status = "confirmed"
    /\ frequent_flyers # <<>>

\* the race is over: every racer holds the result of its call
AllDone == \A p \in DOMAIN calls : calls[p].pc = "done"

Succeeded == {p \in DOMAIN calls : calls[p].pc = "done" /\ calls[p].outcome = "ok"}

\* C5: K seats, N > K concurrent auto-assign create_booking calls and nothing
\* else: once all calls have finished exactly K have succeeded, the others
\* have each failed with NoAvailability or SeatUnavailable, the K bookings hold
\* K distinct seats, the counter is 0 and no seat of the class is available.
C5_ExactlyKSucceed ==
    AllDone =>
       /\ Cardinality(Succeeded) = RaceSeats
       /\ \A p \in DOMAIN calls \ Succeeded :
             calls[p].outcome \in {"NoAvailability", "SeatUnavailable"}
       /\ Len(bookings) = RaceSeats
       /\ \A a, b \in DOMAIN bookings :
             a # b => bookings[a].seat_id # bookings[b].seat_id
       /\ flights[1].available["economy"] = 0
       /\ \A x \in DOMAIN seats : ~seats[x].is_available

\* the race is over, a seat is still free, and two racers were turned away
\* with ConcurrencyConflict
C5_FewerThanKSucceed ==
    /\ AllDone
    /\ Cardinality(Succeeded) < RaceSeats
    /\ flights[1].available["economy"] > 0
    /\ \E x \in DOMAIN seats : seats[x].is_available
    /\ Cardinality({p \in DOMAIN calls : calls[p].outcome = "ConcurrencyConflict"}) >= 2

\* C6 as stated: of the concurrent create_booking calls for one seat, exactly
\* one succeeds and every other fails with SeatUnavailable.
C6_OthersSeatUnavailable ==
    AllDone =>
       /\ Cardinality(Succeeded) = 1
       /\ \A p \in DOMAIN calls \ Succeeded : calls[p].outcome = "SeatUnavailable"

\* C6: of the concurrent create_booking calls for one seat, exactly one
\* succeeds and holds that seat; every other fails, with NoAvailability when
\* the seat was the last available seat of its class (the counter is checked
\* before the seat) and with SeatUnavailable otherwise.
C6_OneWinner ==
    AllDone =>
       /\ Cardinality(Succeeded) = 1
       /\ Len(bookings) = 1
       /\ seats[bookings[1].seat_id].seat_number = calls[1].seat_number
       /\ \A p \in DOMAIN calls \ Succeeded :
             calls[p].outcome =
                IF flights[1].available["economy"] = 0 THEN "NoAvailability"
                ELSE "SeatUnavailable"

\* the race for one seat of several is over and a loser, turned back once by
\* the winner's commit, was refused the seat
C6_Witness ==
    /\ AllDone
    /\ Len(seats) > 1
    /\ Cardinality(Succeeded) = 1
    /\ \E p \in DOMAIN calls : calls[p].outcome = "SeatUnavailable"

StatusMoves ==
    {<<"pending", "confirmed">>, <<"pending", "cancelled">>, <<"confirmed", "cancelled">>}

C7_StatusStep ==
    \A b \in DOMAIN bookings :
       /\ b \in DOMAIN bookings'
       /\ \/ bookings'[b].status = bookings[b].status
          \/ <<bookings[b].status, bookings'[b].status>> \in StatusMoves
          \/ /\ <<bookings[b].status, bookings'[b].status>> = <<"confirmed", "completed">>
             /\ MarkCompleted(b)
       /\ bookings[b].status \in {"cancelled", "completed"}
          => /\ bookings'[b].status = bookings[b].status
             /\ bookings'[b].seat_id = bookings[b].seat_id

\* C7: under the seven operations a booking's status changes only from
\* PENDING to CONFIRMED, from PENDING to CANCELLED or from CONFIRMED to
\* CANCELLED, and a CANCELLED or COMPLETED booking keeps its status and its
\* seat reference for good.  (A booking becomes COMPLETED by the outside step.)
C7_StatusMoves == [][C7_StatusStep]_vars

\* a completed booking and a cancelled booking, and a refund just made for one of them
C7_Witness ==
    /\ \E b \in DOMAIN bookings : bookings[b].status = "completed"
    /\ \E b \in DOMAIN bookings : bookings[b].status = "cancelled"
    /\ last = [op |-> "refund_payment", outcome |-> "ok"]

Rejected(r) == r = Raise(Store, "InvalidState")

C8_Rejects ==
    \A b \in DOMAIN bookings :
       /\ bookings[b].status \in {"cancelled", "completed"}
          => /\ Rejected(CancelBookingTransaction(Store, b))
             /\ \A n \in ChangeSeatNumbers : Rejected(ChangeSeatTransaction(Store, b, n))
       /\ bookings[b].status # "pending"
          => \A ok \in BOOLEAN : Rejected(ConfirmBookingTransaction(Store, b, ok))

C8_RejectedStep ==
    last'.outcome = "InvalidState"
       => \/ UNCHANGED tables
          \/ \E b \in DOMAIN bookings : MarkCompleted(b)

\* C8: cancel_booking and change_seat on a CANCELLED or COMPLETED booking, and
\* confirm_booking on a booking that is not PENDING, raise InvalidState and
\* write nothing; and a call that ends with InvalidState leaves every table
\* as it was (no counter incremented, no seat released, no points awarded).
C8_InvalidStateChangesNothing == []C8_Rejects /\ [][C8_RejectedStep]_vars

\* a second cancel_booking has just been refused, beside a completed booking
C8_Witness ==
    /\ last = [op |-> "cancel_booking", outcome |-> "InvalidState"]
    /\ \E b \in DOMAIN bookings : bookings[b].status = "cancelled"
    /\ \E b \in DOMAIN bookings : bookings[b].status = "completed"

\* the seat numbered n of booking b's flight and class is held by another active booking
TakenByAnother(b, n) ==
    \E a \in ActiveBookings \ {b} :
       /\ bookings[a].flight_id = bookings[b].flight_id
       /\ bookings[a].seat_class = bookings[b].seat_class
       /\ seats[bookings[a].seat_id].seat_number = n

C9_Refused ==
    \A b \in ActiveBookings : \A n \in ChangeSeatNumbers :
       TakenByAnother(b, n)
          => ChangeSeatTransaction(Store, b, n) = Raise(Store, "SeatUnavailable")

C9_FailedStep ==
    (last'.op = "change_seat" /\ last'.outcome # "ok")
       => /\ UNCHANGED tables
          /\ \A b \in ActiveBookings :
                /\ bookings'[b].seat_id = bookings[b].seat_id
                /\ bookings[b].seat_id \in DOMAIN seats
                /\ ~seats'[bookings[b].seat_id].is_available

\* C9: change_seat(b, s) for a seat that another booking holds, or has taken
\* while the call was under way, fails; after the failed call b refers to its
\* original seat, that seat is still unavailable, and b is not without a seat.
C9_FailedChangeKeepsSeat == []C9_Refused /\ [][C9_FailedStep]_vars

\* change_seat has just been refused a seat that the other active booking holds
C9_Witness ==
    /\ last = [op |-> "change_seat", outcome |-> "SeatUnavailable"]
    /\ \E b \in ActiveBookings : \E n \in ChangeSeatNumbers : TakenByAnother(b, n)

\* the step confirms booking b without a payment row: confirm_booking(b, True)
ConfirmStep(b) ==
    /\ bookings[b].status = "pending"
    /\ bookings'[b].status = "confirmed"
    /\ payments' = payments

C10_Confirms ==
    \A b \in DOMAIN bookings :
       bookings[b].status = "pending"
          => LET r == ConfirmBookingTransaction(Store, b, TRUE)
             IN r.outcome = "ok" /\ r.commit /\ r.db.bookings[b].status = "confirmed"

C10_ConfirmStep ==
    \A b \in DOMAIN bookings :
       ConfirmStep(b)
          => LET pid == bookings[b].passenger_id
                 earned == CalculatePoints(bookings[b].price, bookings[b].seat_class,
                              TierMultiplier(frequent_flyers[pid].tier))
             IN /\ bookings' = [bookings EXCEPT ![b].status = "confirmed"]
                /\ IF pid \in DOMAIN frequent_flyers
                   THEN frequent_flyers' =
                          [frequent_flyers EXCEPT ![pid] =
                             [points |-> @.points + earned,
                              tier |-> CalculateTier(@.points + earned)]]
                   ELSE frequent_flyers' = frequent_flyers
                /\ seats' = seats
                /\ ~seats[bookings[b].seat_id].is_available
                /\ flights' = flights
                /\ passengers' = passengers

\* C10: confirm_booking(b, True) on a PENDING booking makes it CONFIRMED, adds
\* calculate_points(price, class, multiplier of the account's current tier) to
\* the passenger's balance (when the passenger has an account) and recomputes
\* the tier, and leaves b's seat unavailable and every counter unchanged.
C10_ConfirmAwardsPoints == []C10_Confirms /\ [][C10_ConfirmStep]_vars

\* confirm_booking has just confirmed an economy booking of 100.50: the
\* bronze account of 24950 points holds 25050 and is silver
C10_Witness ==
    /\ last = [op |-> "confirm_booking", outcome |-> "ok"]
    /\ payments = <<>>
    /\ Len(bookings) = 1
    /\ bookings[1].status = "confirmed" /\ bookings[1].seat_class = "economy"
    /\ frequent_flyers # <<>>
    /\ frequent_flyers[1] = [points |-> 25050, tier |-> "silver"]

\* the tables after booking b is cancelled with no loyalty write: status
\* CANCELLED, its seat available, its flight's counter of its class one higher
CancelledNoLedger(db, b) ==
    [db EXCEPT
       !.bookings = [@ EXCEPT ![b].status = "cancelled"],
       !.seats = [@ EXCEPT ![db.bookings[b].seat_id].is_available = TRUE],
       !.flights = [@ EXCEPT ![db.bookings[b].flight_id]
                                .available[db.bookings[b].seat_class] = @ + 1]]

C11_Branches ==
    \A b \in DOMAIN bookings :
       bookings[b].status = "pending"
          => /\ ~seats[bookings[b].seat_id].is_available
             /\ ConfirmBookingTransaction(Store, b, FALSE)
                   = Return(CancelledNoLedger(Store, b))
             /\ \A ok \in BOOLEAN :
                   LET r == ConfirmBookingTransaction(Store, b, ok)
                   IN /\ r.outcome = "ok" /\ r.commit
                      /\ r.db.bookings[b].status
                            = (IF ok THEN "confirmed" ELSE "cancelled")

C11_ConfirmStep ==
    last' = [op |-> "confirm_booking", outcome |-> "ok"]
       => \E b \in DOMAIN bookings :
             /\ bookings[b].status = "pending"
             /\ \/ /\ ConfirmStep(b)
                   /\ seats' = seats /\ flights' = flights
                \/ /\ Store' = CancelledNoLedger(Store, b)
                   /\ seats'[bookings[b].seat_id].is_available
                   /\ frequent_flyers' = frequent_flyers

\* C11: confirm_booking(b, False) on a PENDING booking makes b CANCELLED, makes
\* b's seat available, adds exactly 1 to the flight's counter of b's class and
\* leaves the loyalty accounts as they were; and every confirm_booking on a
\* PENDING booking runs the confirm branch or the cancel branch, never neither.
C11_FailedPaymentCancels == []C11_Branches /\ [][C11_ConfirmStep]_vars

\* confirm_booking(b, False) has just cancelled the only booking, of a
\* passenger who has a loyalty account
C11_Witness ==
    /\ last = [op |-> "confirm_booking", outcome |-> "ok"]
    /\ Len(bookings) = 1
    /\ bookings[1].status = "cancelled"
    /\ seats[bookings[1].seat_id].is_available
    /\ frequent_flyers # <<>>

\* the loyalty accounts after the points of booking b are reversed: the
\* points calculated with the multiplier of the stored tier are taken from the
\* balance, which does not go below 0, and the tier follows the new balance
Reversed(db, b) ==
    LET pid == db.bookings[b].passenger_id
        calculated == CalculatePoints(db.bookings[b].price, db.bookings[b].seat_class,
                         TierMultiplier(db.frequent_flyers[pid].tier))
        left == db.frequent_flyers[pid].points - calculated
        new_points == IF left > 0 THEN left ELSE 0
    IN IF pid \in DOMAIN db.frequent_flyers
       THEN [db.frequent_flyers EXCEPT ![pid] =
               [points |-> new_points, tier |-> CalculateTier(new_points)]]
       ELSE db.frequent_flyers

\* the tables after booking b is cancelled by the cancellation side effects
Cancelled(db, b) ==
    [CancelledNoLedger(db, b) EXCEPT
       !.frequent_flyers = IF db.bookings[b].status = "confirmed"
                           THEN Reversed(db, b) ELSE @]

C12_Cancels ==
    \A b \in ActiveBookings :
       /\ ~seats[bookings[b].seat_id].is_available
       /\ CancelBookingTransaction(Store, b) = Return(Cancelled(Store, b))
       /\ bookings[b].status = "pending"
             => Cancelled(Store, b).frequent_flyers = frequent_flyers

C12_CancelStep ==
    last' = [op |-> "cancel_booking", outcome |-> "ok"]
       => \E b \in ActiveBookings :
             /\ Store' = Cancelled(Store, b)
             /\ bookings'[b].status = "cancelled"
             /\ seats'[bookings[b].seat_id].is_available
             /\ flights'[bookings[b].flight_id].available[bookings[b].seat_class]
                   = flights[bookings[b].flight_id].available[bookings[b].seat_class] + 1
             /\ bookings[b].status = "pending" => frequent_flyers' = frequent_flyers
             /\ (bookings[b].status = "confirmed"
                   /\ bookings[b].passenger_id \in DOMAIN frequent_flyers)
                  => frequent_flyers'[bookings[b].passenger_id].points
                       < frequent_flyers[bookings[b].passenger_id].points

\* C12: cancel_booking(b) on a PENDING or CONFIRMED booking makes b CANCELLED,
\* makes b's seat available and adds exactly 1 to the counter of b's class on
\* b's flight; the passenger's loyalty account is debited when b was CONFIRMED
\* and is left as it was (points and tier) when b was PENDING.
C12_CancelEffects == []C12_Cancels /\ [][C12_CancelStep]_vars

\* cancel_booking has just cancelled the only booking, which was confirmed:
\* the account that held 25050 points (silver) holds 24925 and is bronze
C12_Witness ==
    /\ last = [op |-> "cancel_booking", outcome |-> "ok"]
    /\ Len(bookings) = 1
    /\ bookings[1].status = "cancelled"
    /\ seats[bookings[1].seat_id].is_available
    /\ frequent_flyers # <<>>
    /\ frequent_flyers[1] = [points |-> 24925, tier |-> "bronze"]

\* the loyalty accounts after the points of the confirmed bookings among
\* `order` are reversed one after the other
RECURSIVE ReversedInTurn(_, _)
ReversedInTurn(db, order) ==
    IF order = <<>> THEN db.frequent_flyers
    ELSE ReversedInTurn(
           [db EXCEPT !.frequent_flyers =
              IF db.bookings[Head(order)].status = "confirmed"
              THEN Reversed(db, Head(order)) ELSE @],
           Tail(order))

\* what cancel_bookings_for_flight(f) leaves in db2, having found the active
\* bookings of f in db
BulkCancelled(db, db2, f) ==
    /\ DOMAIN db2.bookings = DOMAIN db.bookings
    /\ \A b \in DOMAIN db.bookings :
          IF b \in ActiveBookingsOfFlight(db, f)
          THEN /\ db2.bookings[b] = [db.bookings[b] EXCEPT !.status = "cancelled"]
               /\ db2.seats[db.bookings[b].seat_id].is_available
          ELSE db2.bookings[b] = db.bookings[b]
    /\ \A x \in DOMAIN db.seats :
          \/ db2.seats[x] = db.seats[x]
          \/ /\ db.seats[x].flight_id = f
             /\ db2.seats[x] = [db.seats[x] EXCEPT !.is_available = TRUE]
             /\ \E b \in ActiveBookingsOfFlight(db, f) : db.bookings[b].seat_id = x
    /\ \A g \in DOMAIN db.flights :
          IF g = f
          THEN \A cl \in SeatClass :
                 /\ db2.flights[g].available[cl]
                      = db.flights[g].available[cl]
                          + Cardinality({b \in ActiveBookingsOfFlight(db, f) :
                                           db.bookings[b].seat_class = cl})
                 /\ db2.flights[g].available[cl] = Capacity(db.flights[g], cl)
          ELSE db2.flights[g] = db.flights[g]
    /\ \E order \in Orders(ActiveBookingsOfFlight(db, f)) :
          db2.frequent_flyers = ReversedInTurn(db, order)
    /\ db2.payments = db.payments /\ db2.passengers = db.passengers

C13_Bulk ==
    \A f \in FlightIds :
       \A order \in Orders(ActiveBookingsOfFlight(Store, f)) :
          LET r == CancelBookingsForFlightTransaction(Store, order)
          IN /\ r.outcome = "ok" /\ r.commit
             /\ r.cancelled = Cardinality(ActiveBookingsOfFlight(Store, f))
             /\ BulkCancelled(Store, r.db, f)
             /\ r.db.frequent_flyers = ReversedInTurn(Store, order)

C13_BulkStep ==
    last' = [op |-> "cancel_bookings_for_flight", outcome |-> "ok"]
       => \E f \in FlightIds : BulkCancelled(Store, Store', f)

\* C13: cancel_bookings_for_flight(f) makes every PENDING or CONFIRMED booking
\* of f CANCELLED, makes each of their seats available, adds one to the class
\* counter per booking, reverses the points of those that were CONFIRMED,
\* returns the number of bookings it cancelled and leaves the bookings, seats
\* and counters of other flights as they were; afterwards every class counter
\* of f equals the capacity of the class.
C13_BulkCancel == []C13_Bulk /\ [][C13_BulkStep]_vars

\* cancel_bookings_for_flight has just cancelled a confirmed booking of one
\* flight, beside an active booking of the other flight
C13_Witness ==
    /\ last = [op |-> "cancel_bookings_for_flight", outcome |-> "ok"]
    /\ Len(bookings) = 2
    /\ bookings[1].flight_id # bookings[2].flight_id
    /\ \E a, b \in DOMAIN bookings :
          /\ bookings[a].status = "cancelled" /\ bookings[b].status \in ActiveStatus
          /\ seats[bookings[a].seat_id].is_available
          /\ ~seats[bookings[b].seat_id].is_available
    /\ frequent_flyers # <<>>
    /\ frequent_flyers[1].points = 24925

\* create_booking(passenger, f, cl, ...) run on the committed tables
CreateResults(f, cl) ==
    {CreateBookingTransaction(Store, pid, f, cl, sc[1], sc[2], ref) :
        pid \in PassengerIds, sc \in RequestSeatChoices, ref \in FreeRefs}

C14_Refuses ==
    \A f \in FlightIds \cup {Len(flights) + 1} : \A cl \in SeatClass :
       \A r \in CreateResults(f, cl) :
          /\ f \notin DOMAIN flights => r = Raise(Store, "NotFound")
          /\ (f \in DOMAIN flights /\ flights[f].status # "scheduled")
                => r = Raise(Store, "InvalidState")
          /\ (f \in DOMAIN flights /\ flights[f].status = "scheduled"
                 /\ flights[f].available[cl] <= 0)
                => r = Raise(Store, "NoAvailability")
          /\ r.commit => /\ f \in DOMAIN flights
                         /\ flights[f].status = "scheduled"
                         /\ flights[f].available[cl] > 0
          /\ ~r.commit => r.db = Store

C14_CreateStep ==
    /\ Len(bookings') # Len(bookings)
         => LET nb == bookings'[Len(bookings')]
            IN /\ nb.flight_id \in DOMAIN flights
               /\ flights[nb.flight_id].status = "scheduled"
               /\ flights'[nb.flight_id].status = "scheduled"
               /\ flights[nb.flight_id].available[nb.seat_class] > 0
    /\ (last'.op = "create_booking" /\ last'.outcome # "ok") => UNCHANGED tables

\* C14: create_booking creates a booking only when, inside its transaction,
\* the flight exists, its status is 'scheduled' and the counter of the class
\* is above 0; otherwise it raises NotFound, InvalidState or NoAvailability
\* and no booking, seat or counter changes: no booking is created on a
\* cancelled flight or in a class whose counter is 0.
C14_CreateGuards == []C14_Refuses /\ [][C14_CreateStep]_vars

\* create_booking has just been refused on a cancelled flight that still has
\* an available seat
C14_Witness ==
    /\ last = [op |-> "create_booking", outcome |-> "InvalidState"]
    /\ \E f \in DOMAIN flights :
          /\ flights[f].status = "cancelled"
          /\ \E cl \in SeatClass : flights[f].available[cl] > 0

\* every caller is in one of the attempts 1..max_retries of its call
C15_Attempts ==
    \A p \in DOMAIN calls : calls[p].attempt \in 0..(max_retries - 1)

\* what becomes of an attempt the store answered with a write conflict, and
\* where new attempts and ConcurrencyConflict come from
C15_RetryStep ==
    \A p \in DOMAIN calls :
       LET c == calls[p]
           conflicted == c.pc = "running" /\ (c.stale \/ c.ref_race)
       IN /\ (c.pc = "running" /\ c.stale /\ calls'[p].pc # "running")
               => IF c.attempt < max_retries - 1
                  THEN /\ calls'[p] = [c EXCEPT !.pc = "ready", !.attempt = @ + 1,
                                                !.stale = FALSE, !.ref_race = FALSE]
                       /\ UNCHANGED tables
                  ELSE /\ calls'[p].pc = "done"
                       /\ calls'[p].outcome = "ConcurrencyConflict"
                       /\ UNCHANGED tables
          /\ calls'[p].attempt > c.attempt
               => conflicted /\ Retryable(c.op) /\ calls'[p].attempt = c.attempt + 1
          /\ (calls'[p].outcome = "ConcurrencyConflict" /\ c.outcome # "ConcurrencyConflict")
               => conflicted /\ c.attempt = max_retries - 1

\* both calls have returned or raised
C15_Finished == calls[1].pc = "done" /\ calls[2].pc = "done"

\* C15: a create_booking or change_seat call makes at most 5 transaction
\* attempts: an attempt that ends in a write conflict is followed by a new
\* attempt while fewer than 5 were made, the call raises ConcurrencyConflict
\* when the 5th ends in a conflict, and the call always finishes.
C15_BoundedRetries == []C15_Attempts /\ [][C15_RetryStep]_vars /\ <>C15_Finished

\* every attempt of change_seat and of create_booking met a write conflict:
\* both calls raised ConcurrencyConflict
C15_Witness ==
    /\ calls[1].pc = "done" /\ calls[1].outcome = "ConcurrencyConflict"
    /\ calls[2].pc = "done" /\ calls[2].outcome = "ConcurrencyConflict"

\* the error kinds a transaction of create_booking or change_seat raises
TerminalErrors ==
    {"NotFound", "InvalidState", "NoAvailability", "SeatUnavailable", "ValidationError"}

\* what one transaction attempt of call c gives on the committed tables
AttemptOutcomes(c) ==
    IF c.op = "create_booking"
    THEN {CreateBookingTransaction(Store, c.passenger_id, c.flight_id, c.seat_class,
                                   c.seat_number, c.auto_assign, ref).outcome :
             ref \in FreeRefs}
    ELSE {ChangeSeatTransaction(Store, c.booking_id, c.seat_number).outcome}

C16_Raises ==
    \A c \in Requests :
       Retryable(c.op) => AttemptOutcomes(c) \subseteq TerminalErrors \cup {"ok"}

C16_ErrorStep ==
    /\ (Retryable(last'.op) /\ last' # last
           /\ last'.outcome \notin {"ok", "ConcurrencyConflict"})
         => /\ last'.outcome \in TerminalErrors
            \* it is what an attempt raised: on the committed tables, or on
            \* the snapshot a running attempt holds
            /\ \E c \in Requests \cup {calls[p] : p \in DOMAIN calls} :
                  /\ c.op = last'.op
                  /\ last'.outcome \in (IF c.outcome = "none" THEN AttemptOutcomes(c)
                                        ELSE {c.outcome})
            /\ UNCHANGED tables
    /\ \A p \in DOMAIN calls :
          \/ calls'[p].attempt <= calls[p].attempt /\ calls'[p].pc # "ready"
          \/ calls'[p] = calls[p]
          \/ /\ calls[p].pc = "running"
             /\ calls[p].stale \/ calls[p].ref_race
             /\ calls'[p].pc = "ready"
             /\ calls'[p].attempt = calls[p].attempt + 1

\* C16: in create_booking and change_seat an error raised inside the
\* transaction (NotFound, InvalidState, NoAvailability, SeatUnavailable,
\* ValidationError) reaches the caller as it was raised, by the attempt that
\* raised it; a call goes to another attempt only after a write conflict.
C16_ErrorsPropagate == []C16_Raises /\ [][C16_ErrorStep]_vars

\* create_booking without a seat and without automatic assignment has just
\* raised ValidationError, beside a booking that holds a seat
C16_Witness ==
    /\ last = [op |-> "create_booking", outcome |-> "ValidationError"]
    /\ ActiveBookings # {}
    /\ \A p \in DOMAIN calls : calls[p].pc = "idle"

\* the five operations of the booking core
CoreOps ==
    {"create_booking", "confirm_booking", "cancel_booking", "change_seat",
     "cancel_bookings_for_flight"}

\* the results one transaction of call c can have on the committed tables
Results(c) ==
    CASE c.op = "create_booking" ->
           {CreateBookingTransaction(Store, c.passenger_id, c.flight_id, c.seat_class,
                                     c.seat_number, c.auto_assign, ref) :
               ref \in FreeRefs}
      [] c.op = "confirm_booking" ->
           {ConfirmBookingTransaction(Store, c.booking_id, c.flag)}
      [] c.op = "cancel_booking" -> {CancelBookingTransaction(Store, c.booking_id)}
      [] c.op = "change_seat" ->
           {ChangeSeatTransaction(Store, c.booking_id, c.seat_number)}
      [] c.op = "cancel_bookings_for_flight" ->
           {[outcome |-> r.outcome, commit |-> r.commit, db |-> r.db] :
               r \in {CancelBookingsForFlightTransaction(Store, order) :
                        order \in Orders(ActiveBookingsOfFlight(Store, c.flight_id))}}
      [] c.op = "process_booking_payment" ->
           {ProcessBookingPaymentTransaction(Store, c.booking_id, c.flag)}
      [] c.op = "refund_payment" ->
           {RefundPaymentTransaction(Store, c.payment_id, c.flag)}
      [] OTHER -> {}

C17_AllOrNothing ==
    \A c \in Requests : \A r \in Results(c) :
       (c.op \in CoreOps /\ r.outcome # "ok") => (~r.commit /\ r.db = Store)

C17_FailedStep ==
    \* a call that raised left the tables as they were
    /\ (last' # last /\ last'.op \in CoreOps /\ last'.outcome # "ok")
         => UNCHANGED tables
    \* so did an attempt that met a write conflict, whether the call goes on
    \* to another attempt or raises
    /\ \A p \in DOMAIN calls :
          (calls[p].pc = "running" /\ calls[p].stale /\ calls'[p].pc # "running")
             => UNCHANGED tables
    \* and the tables change only by the commit of a transaction that
    \* returned (or of a payment)
    /\ tables' # tables
         => \E c \in Requests : \E r \in Results(c) :
               /\ r.commit /\ Store' = r.db
               /\ c.op \in CoreOps => r.outcome = "ok"

\* C17: when create_booking, confirm_booking, cancel_booking, change_seat or
\* cancel_bookings_for_flight raises an error (ConcurrencyConflict after the
\* last attempt included), the committed bookings, seats, counters and
\* loyalty accounts are what they were before the call: nothing a failed or
\* repeated attempt wrote is committed.
C17_FailedCallsChangeNothing == []C17_AllOrNothing /\ [][C17_FailedStep]_vars

\* change_seat has just raised ConcurrencyConflict: each of its five attempts
\* met a write conflict
C17_Witness ==
    /\ last = [op |-> "change_seat", outcome |-> "ConcurrencyConflict"]
    /\ ActiveBookings # {}

\* the error kinds of the exposed surface
ErrorKinds == TerminalErrors \cup {"ConcurrencyConflict"}

\* C18: under any interleaving a call to create_booking, confirm_booking,
\* cancel_booking, change_seat or cancel_bookings_for_flight returns its
\* result or raises one of NotFound, InvalidState, NoAvailability,
\* SeatUnavailable, ConcurrencyConflict, ValidationError; the store's own
\* write-conflict error does not reach the caller.
C18_OnlyErrorKinds ==
    last.op \in CoreOps => last.outcome \in ErrorKinds \cup {"ok"}

\* confirm_booking, cancel_booking or cancel_bookings_for_flight has just
\* raised the store's TransactionRollbackError: a transaction that committed
\* after its snapshot rewrote a row of its booking
C18_RawConflictReachesCaller ==
    /\ last.op \in {"confirm_booking", "cancel_booking", "cancel_bookings_for_flight"}
    /\ last.outcome = "TransactionRollbackError"
    /\ bookings # <<>>

\* the multipliers of the loyalty rules, the tier's in hundredths
ClassFactor(cl) ==
    CASE cl = "economy" -> 1 [] cl = "business" -> 2 [] cl = "first" -> 3

TierFactor(t) ==
    CASE t = "bronze" -> 100 [] t = "silver" -> 125 [] t = "gold" -> 150
      [] t = "platinum" -> 200

\* trunc(trunc(floor(price) * classMultiplier) * tierMultiplier), price in cents
PointsRule(price, cl, t) == (((price \div 100) * ClassFactor(cl)) * TierFactor(t)) \div 100

C19_Rule ==
    \A b \in DOMAIN bookings : \A t \in LoyaltyTier :
       CalculatePoints(bookings[b].price, bookings[b].seat_class, TierMultiplier(t))
          = PointsRule(bookings[b].price, bookings[b].seat_class, t)

C19_AwardStep ==
    \A b \in DOMAIN bookings :
       (ConfirmStep(b) /\ bookings[b].passenger_id \in DOMAIN frequent_flyers)
          => LET pid == bookings[b].passenger_id
             IN frequent_flyers'[pid].points - frequent_flyers[pid].points
                  = PointsRule(bookings[b].price, bookings[b].seat_class,
                               frequent_flyers[pid].tier)

\* C19: for every price, class and tier, calculate_points is
\* trunc(trunc(floor(price) * classMultiplier) * tierMultiplier) with class
\* multipliers 1, 2, 3 (economy, business, first) and tier multipliers 1.0,
\* 1.25, 1.5, 2.0 (bronze, silver, gold, platinum); first class at 1200 and
\* bronze gives 3600.
C19_PointsRule == []C19_Rule /\ [][C19_AwardStep]_vars

\* a first class booking of 1200.00 confirmed for a bronze account of 0
\* points: the account holds 3600
C19_Witness ==
    /\ last = [op |-> "confirm_booking", outcome |-> "ok"]
    /\ bookings[1].status = "confirmed"
    /\ bookings[1].seat_class = "first" /\ bookings[1].price = 120000
    /\ frequent_flyers[1] = [points |-> 3600, tier |-> "bronze"]

\* the tier of a balance: bronze below 25,000, silver below 50,000, gold
\* below 100,000, platinum from there
TierOf(points) ==
    IF points < 25000 THEN "bronze"
    ELSE IF points < 50000 THEN "silver"
    ELSE IF points < 100000 THEN "gold"
    ELSE "platinum"

C20_TierFollowsPoints ==
    \A pid \in DOMAIN frequent_flyers :
       frequent_flyers[pid].tier = TierOf(frequent_flyers[pid].points)

C20_LedgerStep ==
    frequent_flyers' # frequent_flyers
       => /\ DOMAIN frequent_flyers' = DOMAIN frequent_flyers
          /\ \A pid \in DOMAIN frequent_flyers :
                frequent_flyers'[pid].tier = TierOf(frequent_flyers'[pid].points)

\* C20: after every change of a loyalty account made by confirm_booking,
\* cancel_booking, cancel_bookings_for_flight, process_booking_payment or
\* refund_payment, the stored tier is the tier of the stored points: bronze
\* below 25,000, silver below 50,000, gold below 100,000, platinum otherwise.
C20_TierOfPoints == []C20_TierFollowsPoints /\ [][C20_LedgerStep]_vars

\* refund_payment has just taken 150 points from a gold account of 50075:
\* it holds 49925 and is silver
C20_Witness ==
    /\ last = [op |-> "refund_payment", outcome |-> "ok"]
    /\ frequent_flyers[1] = [points |-> 49925, tier |-> "silver"]
    /\ bookings[1].status = "cancelled"

\* confirmed bookings of passenger pid that the step cancels
Reverses(pid) ==
    {b \in DOMAIN bookings :
        /\ bookings[b].passenger_id = pid
        /\ bookings[b].status = "confirmed"
        /\ bookings'[b].status = "cancelled"}

Max0(n) == IF n > 0 THEN n ELSE 0

C21_NotNegative ==
    \A pid \in DOMAIN frequent_flyers : frequent_flyers[pid].points >= 0

C21_ReverseStep ==
    \A pid \in DOMAIN frequent_flyers :
       Cardinality(Reverses(pid)) = 1
          => LET b == CHOOSE x \in Reverses(pid) : TRUE
             IN frequent_flyers'[pid].points =
                   Max0(frequent_flyers[pid].points
                          - PointsRule(bookings[b].price, bookings[b].seat_class,
                                       frequent_flyers[pid].tier))

\* C21: the points balance of a loyalty account is never negative: a
\* cancellation or refund that reverses points sets the balance to
\* max(0, balance - points); reversing 150 points from a balance of 100 gives 0.
C21_PointsNeverNegative == []C21_NotNegative /\ [][C21_ReverseStep]_vars

\* the booking of 150.00 was confirmed before the passenger had an account,
\* the booking of 100.50 after: the account held 100 points, and the
\* cancellation of the first, worth 150, has left it at 0
C21_Witness ==
    /\ last = [op |-> "cancel_booking", outcome |-> "ok"]
    /\ \E a, b \in DOMAIN bookings :
          /\ bookings[a].price = 15000 /\ bookings[a].status = "cancelled"
          /\ \E i \in DOMAIN payments :
                payments[i].booking_id = a /\ payments[i].status = "success"
          /\ bookings[b].price = 10050 /\ bookings[b].status = "confirmed"
    /\ frequent_flyers = <<[points |-> 0, tier |-> "bronze"]>>

\* the tables after the step
StoreAfter ==
    [passengers |-> passengers', flights |-> flights', seats |-> seats',
     bookings |-> bookings', frequent_flyers |-> frequent_flyers',
     payments |-> payments']

\* a step confirms booking b; cancelling b next, before anything else touches
\* the account, gives the balance of before the confirmation
C22_RoundTripStep ==
    \A b \in DOMAIN bookings :
       ( /\ bookings[b].status = "pending"
         /\ bookings'[b].status = "confirmed"
         /\ bookings[b].passenger_id \in DOMAIN frequent_flyers )
          => LET pid == bookings[b].passenger_id
                 r == CancelBookingTransaction(StoreAfter, b)
             IN /\ r.outcome = "ok"
                /\ r.db.frequent_flyers[pid].points = frequent_flyers[pid].points

\* C22: for a booking that is confirmed and later cancelled with no other
\* change of the passenger's loyalty account in between, the points deducted
\* at cancellation equal the points awarded at confirmation: the balance
\* returns to its value before the confirmation.
C22_CancelReturnsAward == [][C22_RoundTripStep]_vars

\* an economy booking of 100.50 was confirmed for a bronze account of 24950
\* (100 points, silver at 25050) and then cancelled: 125 points were taken
\* and the account holds 24925
C22_DeductsMoreThanAwarded ==
    /\ last = [op |-> "cancel_booking", outcome |-> "ok"]
    /\ Len(bookings) = 1
    /\ bookings[1].status = "cancelled"
    /\ bookings[1].price = 10050 /\ bookings[1].seat_class = "economy"
    /\ frequent_flyers[1] = [points |-> 24925, tier |-> "bronze"]

C23_PriceStep ==
    /\ \A b \in DOMAIN bookings :
          b \in DOMAIN bookings' /\ bookings'[b].price = bookings[b].price
    /\ \A b \in DOMAIN bookings' \ DOMAIN bookings :
          bookings'[b].price
             = flights[bookings'[b].flight_id].base_price[bookings'[b].seat_class]

\* C23: a booking's price is set at creation to the flight's base price of
\* the booked class as the creating transaction reads it, and no later
\* operation (confirm, cancel, change_seat, payment, refund, or a later
\* price change by update_flight) changes it.
C23_PriceFixedAtCreation == [][C23_PriceStep]_vars

\* booking 1 was made at 100.50 and has changed seat since the price rose
\* to 120.00; booking 2 was made at 120.00
C23_Witness ==
    /\ last = [op |-> "change_seat", outcome |-> "ok"]
    /\ Len(bookings) = 2
    /\ bookings[1].price = 10050 /\ bookings[1].status = "confirmed"
    /\ bookings[2].price = 12000 /\ bookings[2].status = "cancelled"
    /\ flights[1].base_price = RaisedPrices

\* C24: in every committed state no two bookings have the same
\* booking_reference, also when several create_booking transactions draw
\* their references concurrently.
C24_UniqueReferences ==
    \A a, b \in DOMAIN bookings :
       a # b => bookings[a].booking_reference # bookings[b].booking_reference

\* a booking of flight 1, and a create_booking for flight 2 that was turned
\* back: nothing of flight 2 was written since its snapshot, it had drawn
\* the reference that the booking committed meanwhile holds
C24_Witness ==
    /\ Len(bookings) = 1
    /\ \A b \in DOMAIN bookings : bookings[b].flight_id = 1
    /\ \A f \in DOMAIN flights : flights[f].status = "scheduled"
    /\ \E p \in DOMAIN calls :
          /\ calls[p].pc = "ready" /\ calls[p].op = "create_booking"
          /\ calls[p].flight_id = 2 /\ calls[p].attempt = 1

\* the available seats of a flight and class that carry seat number n
Named(f, cl, n) ==
    {s \in DOMAIN seats :
        /\ seats[s].flight_id = f /\ seats[s].seat_class = cl
        /\ seats[s].seat_number = n /\ seats[s].is_available}

\* reserve_seat with a seat number, on the committed seats
C26_NamedSeatOrNone ==
    \A f \in DOMAIN flights : \A cl \in SeatClass :
       \A n \in RequestSeatNumbers \cup ChangeSeatNumbers :
          LET r == ReserveSeat(seats, f, cl, n)
          IN IF Named(f, cl, n) = {}
             THEN r.seat = NoSeat /\ r.seats = seats
             ELSE /\ r.seat \in Named(f, cl, n)
                  /\ r.seats = [seats EXCEPT ![r.seat].is_available = FALSE]

\* create_booking for a named seat that is not free, in a class that has seats left
C26_TakenSeatRefused ==
    \A c \in CreateRequests :
       ( /\ c.seat_number # None
         /\ c.flight_id \in DOMAIN flights
         /\ flights[c.flight_id].status = "scheduled"
         /\ flights[c.flight_id].available[c.seat_class] > 0
         /\ Named(c.flight_id, c.seat_class, c.seat_number) = {} )
          => CreateBookingTransaction(Store, c.passenger_id, c.flight_id, c.seat_class,
                                      c.seat_number, c.auto_assign, 0)
                = Raise(Store, "SeatUnavailable")

\* a step that ends create_booking with SeatUnavailable writes nothing, and a
\* running create_booking for a named seat that adds a booking gives it that seat
C26_CreateStep ==
    /\ ( last' = [op |-> "create_booking", outcome |-> "SeatUnavailable"]
         /\ last' # last )
          => tables' = tables
    /\ \A p \in DOMAIN calls :
          ( /\ calls[p].pc = "running" /\ calls[p].op = "create_booking"
            /\ calls[p].seat_number # None
            /\ calls'[p].pc = "idle"
            /\ Len(bookings') = Len(bookings) + 1 )
             => LET nb == bookings'[Len(bookings')]
                IN /\ nb.seat_id \in Named(calls[p].flight_id, calls[p].seat_class,
                                             calls[p].seat_number)
                   /\ ~seats'[nb.seat_id].is_available

\* C26: when a seat number is requested, reserve_seat returns exactly that
\* seat of the requested flight and class, flipped from available to
\* unavailable, or null, and never another seat; create_booking for a named
\* seat that is taken raises SeatUnavailable even when auto_assign is true
\* and other seats of the class are free.
C26_NamedSeatOnly ==
    []C26_NamedSeatOrNone /\ []C26_TakenSeatRefused /\ [][C26_CreateStep]_vars

\* economy seat 2B is held, 2A is free, and create_booking has just been
\* refused a named seat: a request for 2B with auto_assign would be
C26_Witness ==
    /\ last = [op |-> "create_booking", outcome |-> "SeatUnavailable"]
    /\ Named(1, "economy", SeatNumber(2, 2)) = {}
    /\ Named(1, "economy", SeatNumber(2, 1)) # {}
    /\ Named(1, "first", SeatNumber(1, 1)) # {}
    /\ flights[1].available["economy"] = 1

\* the available seats of a flight and class
Free(f, cl) ==
    {s \in DOMAIN seats :
        seats[s].flight_id = f /\ seats[s].seat_class = cl /\ seats[s].is_available}

\* seat s comes first among the seats of S in the order of seat_number
Lowest(s, S) ==
    s \in S /\ \A t \in S \ {s} : StrLess(seats[s].seat_number, seats[t].seat_number)

\* reserve_seat without a seat number, on the committed seats
C27_LowestOrNone ==
    \A f \in DOMAIN flights : \A cl \in SeatClass :
       LET r == ReserveSeat(seats, f, cl, None)
       IN IF Free(f, cl) = {}
          THEN r.seat = NoSeat /\ r.seats = seats
          ELSE /\ Lowest(r.seat, Free(f, cl))
               /\ r.seats = [seats EXCEPT ![r.seat].is_available = FALSE]

\* a create_booking without a seat number that commits from its snapshot
\* holds the lowest seat that was free when it committed
C27_AssignStep ==
    \A p \in DOMAIN calls :
       ( /\ calls[p].pc = "running" /\ calls[p].op = "create_booking"
         /\ calls[p].seat_number = None
         /\ calls'[p].pc = "idle"
         /\ Len(bookings') = Len(bookings) + 1 )
          => LET nb == bookings'[Len(bookings')]
             IN /\ Lowest(nb.seat_id, Free(calls[p].flight_id, calls[p].seat_class))
                /\ ~seats'[nb.seat_id].is_available

\* C27: when no seat number is given, reserve_seat returns the seat with the
\* lowest seat_number among the seats of the requested flight and class that
\* are available at the moment of the flip, and null only if no seat of that
\* class is available.
C27_LowestFreeSeat == []C27_LowestOrNone /\ [][C27_AssignStep]_vars

\* the long cabin: the first booking was assigned 10A, which comes before 1A
\* in the order of seat_number and which no caller names; the second holds 1A
C27_Witness ==
    /\ last = [op |-> "create_booking", outcome |-> "ok"]
    /\ Len(bookings) = 2
    /\ seats[bookings[1].seat_id].seat_number = SeatNumber(10, 1)
    /\ seats[bookings[2].seat_id].seat_number = SeatNumber(1, 1)
    /\ bookings[1].status = "pending"
    /\ Cardinality(Free(1, "first")) = CabinSeats - 2

\* caller p's create_booking without a seat number holds a snapshot
AutoAssigning(p) ==
    /\ calls[p].pc = "running" /\ calls[p].op = "create_booking"
    /\ calls[p].seat_number = None

\* ... and of the rows it reads only seat rows were rewritten since: no
\* booking was added, cancelled or confirmed, so no flight row was written,
\* and the seat its loop selected was taken
SeatRaceLost(p) ==
    /\ AutoAssigning(p) /\ calls[p].stale
    /\ Len(bookings) = 1 /\ bookings[1].status = "pending"

\* the attempt of caller p ends in this step
AttemptEnds(p) == AutoAssigning(p) /\ calls'[p].pc # "running"

C28_LostRaceStep ==
    \A p \in DOMAIN calls :
       (SeatRaceLost(p) /\ AttemptEnds(p))
          => \/ Len(bookings') = Len(bookings) + 1
             \/ calls'[p].pc = "done" /\ calls'[p].outcome = "NoAvailability"

C28_AttemptStep ==
    \A p \in DOMAIN calls :
       AttemptEnds(p)
          => \/ /\ ~calls[p].stale
                /\ Len(bookings') = Len(bookings) + 1
                /\ Lowest(bookings'[Len(bookings')].seat_id,
                          Free(calls[p].flight_id, calls[p].seat_class))
             \/ /\ calls'[p].pc = "done"
                /\ calls'[p].outcome \in {"NoAvailability", "InvalidState", "NotFound"}
                /\ tables' = tables
             \/ /\ calls[p].stale \/ calls[p].ref_race
                /\ tables' = tables
                /\ IF calls[p].attempt < max_retries - 1
                   THEN calls'[p].pc = "ready" /\ calls'[p].attempt = calls[p].attempt + 1
                   ELSE calls'[p].pc = "done" /\ calls'[p].outcome = "ConcurrencyConflict"

\* caller 2 is the caller of create_booking
C28_AttemptsEnd == []<>~AutoAssigning(2)

Deltas == {-2, -1, 1, 2}

\* adjust_availability on the committed flights, for a flight of the table
\* or one past it
C29_ConditionalUpdate ==
    \A f \in 1..(Len(flights) + 1) : \A cl \in SeatClass : \A delta \in Deltas :
       LET r == AdjustAvailability(flights, f, cl, delta)
           applies == f \in DOMAIN flights /\ flights[f].available[cl] + delta >= 0
       IN /\ r.updated <=> applies
          /\ r.flights = IF applies
                         THEN [flights EXCEPT ![f].available[cl] = @ + delta]
                         ELSE flights

C29_NotBelowZero ==
    \A f \in DOMAIN flights : \A cl \in SeatClass : flights[f].available[cl] >= 0

\* a step moves a counter by one seat at a time, or by the bookings it cancels
C29_CounterStep ==
    \A f \in DOMAIN flights : \A cl \in SeatClass :
       /\ flights'[f].available[cl] >= 0
       /\ flights'[f].available[cl] < flights[f].available[cl]
             => /\ flights'[f].available[cl] = flights[f].available[cl] - 1
                /\ Len(bookings') = Len(bookings) + 1

\* C29: adjust_availability(flight, class, delta) applies counter += delta
\* only if the resulting counter is >= 0, as one conditional update, and
\* returns true iff a flight row was updated; no reachable state has an
\* available counter below 0, under any interleaving.
C29_CounterNeverNegative ==
    []C29_ConditionalUpdate /\ []C29_NotBelowZero /\ [][C29_CounterStep]_vars

\* create_booking has just taken the last first class seat: the counter is
\* 0 and a further decrement updates no row
C29_Witness ==
    /\ last = [op |-> "create_booking", outcome |-> "ok"]
    /\ flights[1].available["first"] = 0
    /\ ~AdjustAvailability(flights, 1, "first", -1).updated
    /\ bookings[Len(bookings)].seat_class = "first"

\* change_seat on the committed tables, for every active booking and seat number
C30_Changes ==
    \A b \in ActiveBookings : \A n \in RequestSeatNumbers \cup ChangeSeatNumbers :
       LET r == ChangeSeatTransaction(Store, b, n)
           old == bookings[b].seat_id
       IN IF seats[old].seat_number = n
          THEN r = Return(Store)
          ELSE r.outcome = "ok"
                 => /\ r.commit
                    /\ r.db.bookings[b].seat_id
                          \in Named(bookings[b].flight_id, bookings[b].seat_class, n)
                    /\ r.db.bookings = [bookings EXCEPT ![b].seat_id = r.db.bookings[b].seat_id]
                    /\ r.db.seats = [seats EXCEPT
                                       ![r.db.bookings[b].seat_id].is_available = FALSE,
                                       ![old].is_available = TRUE]
                    /\ r.db.flights = flights
                    /\ r.db.frequent_flyers = frequent_flyers
                    /\ r.db.payments = payments
                    /\ r.db.passengers = passengers

\* the bookings that the step moves to another seat
Moved == {b \in DOMAIN bookings : bookings'[b].seat_id # bookings[b].seat_id}

C30_ChangeStep ==
    /\ \A b \in Moved :
          LET new == bookings'[b].seat_id
              old == bookings[b].seat_id
          IN /\ bookings[b].status \in ActiveStatus
             /\ bookings' = [bookings EXCEPT ![b].seat_id = new]
             /\ seats[new].is_available
             /\ seats[new].flight_id = bookings[b].flight_id
             /\ seats[new].seat_class = bookings[b].seat_class
             /\ seats' = [seats EXCEPT ![new].is_available = FALSE,
                                       ![old].is_available = TRUE]
             /\ flights' = flights
             /\ frequent_flyers' = frequent_flyers
             /\ payments' = payments
             /\ passengers' = passengers
    /\ (last' = [op |-> "change_seat", outcome |-> "ok"] /\ Moved = {})
          => tables' = tables

\* C30: change_seat(b, s) on a PENDING or CONFIRMED booking: if b already
\* holds seat number s, no state changes and the current booking is
\* returned; otherwise, on success, b references seat s, s is unavailable,
\* b's previous seat is available again, and b's status, class and price and
\* every availability counter are unchanged.
C30_ChangeSeatEffects == []C30_Changes /\ [][C30_ChangeStep]_vars

\* booking 2 was made on 2B while booking 1 held 2A, and was cancelled;
\* change_seat has just moved the confirmed booking 1 to 2B, and 2A is free
C30_Witness ==
    /\ last = [op |-> "change_seat", outcome |-> "ok"]
    /\ Len(bookings) = 2
    /\ bookings[1].status = "confirmed" /\ bookings[2].status = "cancelled"
    /\ bookings[1].seat_id = bookings[2].seat_id
    /\ seats[bookings[1].seat_id].seat_number = SeatNumber(2, 2)
    /\ ~seats[bookings[1].seat_id].is_available
    /\ Named(1, "economy", SeatNumber(2, 1)) # {}
    /\ flights[1].available["economy"] = 1

\* the seat all the change_seat calls of the race ask for
TargetSeats ==
    {t \in DOMAIN seats : \E p \in DOMAIN calls : seats[t].seat_number = calls[p].seat_number}

\* the calls of the race that have returned the updated booking
Changed == {p \in DOMAIN calls : calls[p].pc = "done" /\ calls[p].outcome = "ok"}

\* C31: when several active bookings concurrently call change_seat with the
\* same available target seat, at most one of the calls succeeds (and the
\* booking of that call is the one that holds the seat).
C31_OneChangeSucceeds ==
    /\ Cardinality(Changed) <= 1
    /\ \A p \in Changed : bookings[calls[p].booking_id].seat_id \in TargetSeats
    /\ \A p \in DOMAIN calls :
          calls[p].pc = "done" /\ calls[p].outcome # "ok"
             => bookings[calls[p].booking_id].seat_id \notin TargetSeats

\* one change_seat has won the seat while another held its snapshot: that one
\* met the serialization failure and sleeps before its second attempt; a
\* third has failed
C31_Witness ==
    /\ Cardinality(Changed) = 1
    /\ \E q \in DOMAIN calls : calls[q].pc = "ready" /\ calls[q].attempt = 1
    /\ \E q \in DOMAIN calls : calls[q].pc = "done" /\ calls[q].outcome = "SeatUnavailable"

\* the outcomes of process_booking_payment once the gateway has been asked
GatewayOutcome(flag) == IF flag THEN "ok" ELSE "PaymentFailed"

\* what confirm_booking and process_booking_payment both write
SameBookingEffects(db, db2) ==
    /\ db.bookings = db2.bookings
    /\ db.seats = db2.seats
    /\ db.flights = db2.flights
    /\ db.frequent_flyers = db2.frequent_flyers
    /\ db.passengers = db2.passengers

\* on the committed tables: whenever process_booking_payment gets as far as
\* the gateway, it commits what confirm_booking(b, answer) commits
C32_SameAsConfirm ==
    \A b \in 1..MaxBookings : \A flag \in BOOLEAN :
       LET paid == ProcessBookingPaymentTransaction(Store, b, flag)
           confirmed == ConfirmBookingTransaction(Store, b, flag)
       IN /\ paid.outcome \in {"ok", "PaymentFailed"}
             => /\ paid.outcome = GatewayOutcome(flag)
                /\ paid.commit /\ confirmed.commit /\ confirmed.outcome = "ok"
                /\ SameBookingEffects(paid.db, confirmed.db)
                /\ ~flag => /\ paid.db.bookings[b].status = "cancelled"
                            /\ paid.db.seats[bookings[b].seat_id].is_available
                            /\ paid.db.flights[bookings[b].flight_id]
                                     .available[bookings[b].seat_class]
                                 = flights[bookings[b].flight_id]
                                     .available[bookings[b].seat_class] + 1
          /\ paid.outcome \notin {"ok", "PaymentFailed"}
             => ~paid.commit /\ paid.db = Store

\* a step that records a payment leaves the other tables as confirm_booking
\* with the recorded answer leaves them, whatever the caller then gets
C32_PaymentStep ==
    Len(payments') > Len(payments)
       => LET payment == payments'[Len(payments')]
              confirmed == ConfirmBookingTransaction(Store, payment.booking_id,
                                                     payment.status = "success")
          IN /\ payments' = Append(payments, payment)
             /\ payment.status \in {"success", "failed"}
             /\ confirmed.commit
             /\ SameBookingEffects([Store EXCEPT !.bookings = bookings',
                                      !.seats = seats', !.flights = flights',
                                      !.frequent_flyers = frequent_flyers',
                                      !.passengers = passengers'],
                                   confirmed.db)

\* a caller that is told the payment failed finds the cancellation committed
C32_FailureStep ==
    (last' = [op |-> "process_booking_payment", outcome |-> "PaymentFailed"]
        /\ last # last')
       => /\ Len(payments') = Len(payments) + 1
          /\ payments'[Len(payments')].status = "failed"
          /\ bookings'[payments'[Len(payments')].booking_id].status = "cancelled"

\* C32: process_booking_payment is confirm_booking driven by the gateway's
\* answer: from the same state, with a successful gateway result it leaves
\* booking status, seat flag, counters and loyalty points/tier as
\* confirm_booking(b, True) does, and with a failed result as
\* confirm_booking(b, False) does (booking CANCELLED, seat available, counter
\* restored), the latter committed even though the call then raises.
C32_PaymentIsConfirm ==
    []C32_SameAsConfirm /\ [][C32_PaymentStep]_vars /\ [][C32_FailureStep]_vars

\* booking 1 was paid for and confirmed, its points taking the passenger to
\* silver; the payment for booking 2 has just failed and booking 2 is cancelled
C32_Witness ==
    /\ last = [op |-> "process_booking_payment", outcome |-> "PaymentFailed"]
    /\ Len(bookings) = 2 /\ Len(payments) = 2
    /\ payments[1] = [booking_id |-> 1, amount |-> bookings[1].price, status |-> "success"]
    /\ payments[2] = [booking_id |-> 2, amount |-> bookings[2].price, status |-> "failed"]
    /\ bookings[1].status = "confirmed" /\ bookings[2].status = "cancelled"
    /\ seats[bookings[2].seat_id].is_available
    /\ frequent_flyers = [pid \in PassengerIds |-> [points |-> 25050, tier |-> "silver"]]

\* the calls of process_booking_payment that end in this step having asked
\* the gateway: the checks before the gateway read the snapshot, and a
\* serialization failure is the answer to a write, which comes after it
PaymentEnds ==
    {p \in DOMAIN calls :
        /\ calls[p].op = "process_booking_payment"
        /\ calls[p].pc = "running"
        /\ calls'[p].pc = "done"
        /\ calls'[p].outcome \notin {"NotFound", "InvalidState"}}

C33_EndStep ==
    \A p \in PaymentEnds :
       LET b == calls[p].booking_id
       IN IF calls[p].flag
          THEN /\ bookings'[b].status = "confirmed"
               /\ \E i \in DOMAIN payments' :
                     payments'[i].booking_id = b /\ payments'[i].status = "success"
          ELSE /\ bookings'[b].status = "cancelled"
               /\ seats'[bookings'[b].seat_id].is_available

\* C33: process_booking_payment is atomic with respect to the gateway's
\* answer under any interleaving with other operations on the same booking
\* or flight: when the gateway has reported success the call ends with the
\* booking CONFIRMED and a SUCCESS payment recorded, when it has reported
\* failure with the booking CANCELLED and its seat released; no finished call
\* has a successful charge while the booking is not confirmed.
C33_AtomicWithGateway == [][C33_EndStep]_vars

\* the gateway charged, the store then refused the transaction's write: the
\* call has ended with the store's serialization failure, no payment is
\* recorded and the booking is not confirmed
C33_ChargedNotConfirmed ==
    /\ calls[1].pc = "done" /\ calls[1].op = "process_booking_payment"
    /\ calls[1].flag
    /\ calls[1].outcome = "TransactionRollbackError"
    /\ payments = <<>>
    /\ bookings[1].status # "confirmed"

\* the tables after payment i is refunded: the payment REFUNDED, and its
\* booking, when CONFIRMED, cancelled with its points reversed
Refunded(db, i) ==
    LET b == db.payments[i].booking_id
    IN [(IF db.bookings[b].status = "confirmed" THEN Cancelled(db, b) ELSE db)
          EXCEPT !.payments = [@ EXCEPT ![i].status = "refunded"]]

C34_Refunds ==
    \A i \in DOMAIN payments :
       LET b == payments[i].booking_id
       IN /\ payments[i].status = "success"
             => /\ RefundPaymentTransaction(Store, i, TRUE) = Return(Refunded(Store, i))
                /\ RefundPaymentTransaction(Store, i, FALSE) = Raise(Store, "RefundFailed")
                /\ bookings[b].status = "confirmed" => ~seats[bookings[b].seat_id].is_available
                /\ bookings[b].status # "confirmed"
                      => /\ Refunded(Store, i).seats = seats
                         /\ Refunded(Store, i).flights = flights
                         /\ Refunded(Store, i).bookings = bookings
                         /\ Refunded(Store, i).frequent_flyers = frequent_flyers
          /\ payments[i].status # "success"
             => \A granted \in BOOLEAN :
                   RefundPaymentTransaction(Store, i, granted) = Raise(Store, "InvalidState")

C34_RefundStep ==
    /\ last' = [op |-> "refund_payment", outcome |-> "ok"]
         => \E i \in DOMAIN payments :
               LET b == payments[i].booking_id
               IN /\ payments[i].status = "success"
                  /\ payments' = [payments EXCEPT ![i].status = "refunded"]
                  /\ Store' = Refunded(Store, i)
                  /\ IF bookings[b].status = "confirmed"
                     THEN /\ bookings' = [bookings EXCEPT ![b].status = "cancelled"]
                          /\ seats' = [seats EXCEPT ![bookings[b].seat_id].is_available = TRUE]
                          /\ flights'[bookings[b].flight_id].available[bookings[b].seat_class]
                                = flights[bookings[b].flight_id]
                                    .available[bookings[b].seat_class] + 1
                          /\ frequent_flyers' = Reversed(Store, b)
                     ELSE UNCHANGED <<bookings, seats, flights, frequent_flyers>>
    /\ last' \in {[op |-> "refund_payment", outcome |-> o] :
                      o \in {"InvalidState", "RefundFailed", "NotFound"}}
         => tables' = tables

\* C34: refund_payment on a SUCCESS payment marks it REFUNDED and, if the
\* booking is CONFIRMED, sets it CANCELLED, releases its seat, adds exactly 1
\* to the class counter and reverses the loyalty points; if the booking was
\* already CANCELLED the seat flag and the counter are not touched again; a
\* second refund of the same payment is rejected and changes nothing.
C34_RefundEffects == []C34_Refunds /\ [][C34_RefundStep]_vars

\* booking 1 was paid for, cancelled by cancel_booking, and its seat booked
\* again by booking 2; the refund of payment 1 has just gone through: the
\* seat is still booking 2's and the counter still counts one free seat
C34_Witness ==
    /\ last = [op |-> "refund_payment", outcome |-> "ok"]
    /\ Len(payments) = 1 /\ payments[1].status = "refunded" /\ payments[1].booking_id = 1
    /\ Len(bookings) = 2
    /\ bookings[1].status = "cancelled" /\ bookings[2].status = "pending"
    /\ bookings[2].seat_id = bookings[1].seat_id
    /\ ~seats[bookings[2].seat_id].is_available
    /\ flights[1].available["economy"] = 1

\* once cancel_flight has finished, the flight is cancelled and none of its
\* bookings is PENDING or CONFIRMED (update_flight raises for a missing
\* flight only, and then nothing is written)
C35_Finished ==
    \A p \in DOMAIN calls :
       (calls[p].pc = "done" /\ calls[p].op \in {"cancel_flight", "cancel_bookings_for_flight"})
          => IF calls[p].flight_id \in DOMAIN flights
             THEN /\ calls[p].outcome = "ok"
                  /\ flights[calls[p].flight_id].status = "cancelled"
                  /\ ActiveBookingsOfFlight(Store, calls[p].flight_id) = {}
             ELSE calls[p].outcome = "NotFound"

\* while a flight is cancelled, the active bookings on it are among those
\* that were active before the step
C35_NoNewBookingStep ==
    \A f \in DOMAIN flights :
       flights[f].status = "cancelled"
          => /\ flights'[f].status = "cancelled"
             /\ ActiveBookingsOfFlight(Store', f) \subseteq ActiveBookingsOfFlight(Store, f)

\* C35: flight cancellation is atomic with respect to its bookings under any
\* interleaving with concurrent create_booking calls on the flight: once
\* cancel_flight(f) has finished, either f is not cancelled and its bookings
\* are untouched, or f is cancelled and no booking on f is PENDING or
\* CONFIRMED; while f stays cancelled no new active booking on f appears.
C35_CancelFlightAtomic == []C35_Finished /\ [][C35_NoNewBookingStep]_vars

\* cancel_flight has returned, having cancelled the booking the flight had;
\* the create_booking that was under way meanwhile was refused
C35_Witness ==
    /\ calls[1].pc = "done" /\ calls[1].outcome = "ok" /\ calls[1].returned = 1
    /\ calls[2].pc = "done" /\ calls[2].outcome = "InvalidState"
    /\ Len(bookings) = 1 /\ bookings[1].status = "cancelled"
    /\ flights[1].status = "cancelled"
    /\ flights[1].available["economy"] = EconomySeats

\* the operations of BookingService that write
BookingServiceOps ==
    {"create_booking", "confirm_booking", "cancel_booking", "change_seat",
     "cancel_bookings_for_flight"}

\* the step writes a seat's flag or a flight's counter
InventoryWritten ==
    \/ \E t \in DOMAIN seats : seats'[t].is_available # seats[t].is_available
    \/ \E f \in DOMAIN flights : flights'[f].available # flights[f].available

\* the step creates a booking or changes a booking's status or seat
BookingMoved ==
    \/ Len(bookings') > Len(bookings)
    \/ \E b \in DOMAIN bookings :
          \/ bookings'[b].status # bookings[b].status
          \/ bookings'[b].seat_id # bookings[b].seat_id

\* with one caller, the operation whose transaction a step commits is the one
\* the caller is left with
C36_InventoryStep ==
    InventoryWritten => last'.op \in BookingServiceOps /\ BookingMoved

\* C36: in every step, a seat's is_available flag or a flight's
\* available_<class> counter changes only inside the transaction of a
\* BookingService operation (create_booking, confirm_booking, cancel_booking,
\* change_seat, cancel_bookings_for_flight) that in the same transaction
\* creates a booking or changes a booking's status or seat reference; no
\* other component writes seat flags or counters.
C36_OnlyBookingServiceWrites == [][C36_InventoryStep]_vars

\* PaymentService has just released the seat of booking 1 and raised the
\* counter itself: the payment failed and the call's own transaction
\* cancelled the booking
C36_PaymentServiceWrote ==
    /\ last = [op |-> "process_booking_payment", outcome |-> "PaymentFailed"]
    /\ Len(bookings) = 1 /\ Len(payments) = 1
    /\ payments[1].status = "failed"
    /\ bookings[1].status = "cancelled"
    /\ seats[bookings[1].seat_id].is_available
    /\ flights[bookings[1].flight_id].available[bookings[1].seat_class]
          = Capacity(flights[bookings[1].flight_id], bookings[1].seat_class)

\* the inventory invariants on tables db: counter plus active bookings is the
\* capacity, and every unavailable seat is the seat of an active booking
InventoryHolds(db) ==
    /\ \A f \in DOMAIN db.flights : \A cl \in SeatClass :
          db.flights[f].available[cl]
             + Cardinality({b \in DOMAIN db.bookings :
                              /\ db.bookings[b].status \in ActiveStatus
                              /\ db.bookings[b].flight_id = f
                              /\ db.bookings[b].seat_class = cl})
             = Capacity(db.flights[f], cl)
    /\ \A t \in DOMAIN db.seats :
          ~db.seats[t].is_available
             => \E b \in DOMAIN db.bookings :
                   db.bookings[b].status \in ActiveStatus /\ db.bookings[b].seat_id = t

C37_DeleteStep ==
    (last' = [op |-> "delete_passenger", outcome |-> "ok"] /\ passengers' # passengers)
       => InventoryHolds(Store')

\* C37: delete_passenger(p) on a passenger who has PENDING or CONFIRMED
\* bookings (deleted by cascade) preserves the inventory invariants:
\* afterwards, for every flight and class, available_<class> plus the number
\* of active bookings is the capacity, and every unavailable seat is still
\* referenced by an active booking.
C37_DeletePreservesInventory == [][C37_DeleteStep]_vars

\* the passenger has just been deleted with both economy seats booked: no
\* booking is left, the two seats are still unavailable and the counter is 0
C37_SeatsLeftTaken ==
    /\ last = [op |-> "delete_passenger", outcome |-> "ok"]
    /\ passengers = {} /\ bookings = <<>>
    /\ flights[1].available["economy"] = 0
    /\ \A t \in DOMAIN seats : seats[t].seat_class = "economy" => ~seats[t].is_available

\* the seat rows of a flight and class whose flag is TRUE
AvailableSeats(f, cl) ==
    {t \in DOMAIN seats :
        seats[t].flight_id = f /\ seats[t].seat_class = cl /\ seats[t].is_available}

\* C38: in every committed state, for every flight and class, the
\* available_<class> counter equals the number of seat rows of that flight
\* and class whose is_available flag is true, from create_flight on and
\* after any sequence of booking operations.
C38_CounterIsFreeSeats ==
    \A f \in DOMAIN flights : \A cl \in SeatClass :
       flights[f].available[cl] = Cardinality(AvailableSeats(f, cl))

\* booking 1 was cancelled, booking 2 took its seat 2A, was confirmed and
\* has just moved to 2B: one economy seat, 2A, is free and the counter is 1
C38_Witness ==
    /\ last = [op |-> "change_seat", outcome |-> "ok"]
    /\ Len(bookings) = 2
    /\ bookings[1].status = "cancelled" /\ bookings[2].status = "confirmed"
    /\ seats[bookings[2].seat_id].seat_number = SeatNumber(2, 2)
    /\ seats[bookings[1].seat_id].seat_number = SeatNumber(2, 1)
    /\ AvailableSeats(1, "economy") = {bookings[1].seat_id}
    /\ flights[1].available["economy"] = 1

\* a booking's seat is a row of seats, of the booking's flight and class
SeatFits(db, b) ==
    /\ db.bookings[b].seat_id # NoSeat
    /\ db.bookings[b].seat_id \in DOMAIN db.seats
    /\ db.seats[db.bookings[b].seat_id].flight_id = db.bookings[b].flight_id
    /\ db.seats[db.bookings[b].seat_id].seat_class = db.bookings[b].seat_class

C39_SeatsFit == \A b \in DOMAIN bookings : SeatFits(Store, b)

\* create_booking with no seat named and auto_assign off, on the committed
\* tables: it raises and writes nothing, and once the passenger, the flight's
\* status and the counter have passed, what it raises is the ValidationError
C39_NoSeatRejected ==
    \A pid \in PassengerIds : \A f \in DOMAIN flights : \A cl \in RequestClasses :
       \A ref \in FreeRefs :
          LET r == CreateBookingTransaction(Store, pid, f, cl, None, FALSE, ref)
          IN /\ r.outcome # "ok"
             /\ r.db = Store
             /\ (/\ pid \in passengers
                 /\ flights[f].status = "scheduled"
                 /\ flights[f].available[cl] > 0) => r.outcome = "ValidationError"

\* a step that adds a booking or moves one to another seat leaves it on a
\* seat of its flight and class, which was free before the step
C39_SeatStep ==
    /\ Len(bookings') > Len(bookings)
          => /\ Len(bookings') = Len(bookings) + 1
             /\ SeatFits(Store', Len(bookings'))
             /\ seats[bookings'[Len(bookings')].seat_id].is_available
    /\ \A b \in DOMAIN bookings :
          (b \in DOMAIN bookings' /\ bookings'[b].seat_id # bookings[b].seat_id)
             => /\ SeatFits(Store', b)
                /\ bookings'[b].flight_id = bookings[b].flight_id
                /\ bookings'[b].seat_class = bookings[b].seat_class

\* C39: every booking created by create_booking references a seat (a request
\* with no specific seat and auto_assign false is rejected with
\* ValidationError before any write), and in every reachable state the seat
\* referenced by a booking belongs to the booking's flight and has the
\* booking's seat class; change_seat preserves this.
C39_BookingHasFittingSeat ==
    [](C39_SeatsFit /\ C39_NoSeatRejected) /\ [][C39_SeatStep]_vars

\* an economy and a first-class booking exist, change_seat has just moved the
\* economy booking to the other economy seat, and a request with no seat and
\* auto_assign off would now be refused with the ValidationError
C39_Witness ==
    /\ last = [op |-> "change_seat", outcome |-> "ok"]
    /\ Len(bookings) = 2
    /\ bookings[1].seat_class = "economy"
    /\ bookings[2].seat_class = "first"
    /\ bookings[1].status \in ActiveStatus
    /\ seats[bookings[1].seat_id].seat_number = SeatNumber(2, 2)
    /\ \E f \in DOMAIN flights : \E ref \in FreeRefs :
          CreateBookingTransaction(Store, 1, f, "economy", None, FALSE, ref).outcome
             = "ValidationError"


\* the bookings that the step takes from one status to another
StatusTaken(from, to) ==
    {b \in DOMAIN bookings :
        /\ b \in DOMAIN bookings'
        /\ bookings[b].status = from
        /\ bookings'[b].status = to}

\* Every step, whatever calls hold snapshots: a booking's status moves only
\* pending -> confirmed, pending -> cancelled or confirmed -> cancelled, so
\* each move happens at most once in its life; a class counter rises by the
\* number of its bookings that become cancelled in the step (less the
\* bookings created); a seat becomes available only as the seat of a booking
\* that becomes cancelled or moves off it; points are added only in a step
\* that confirms a booking and taken only in a step that cancels a confirmed
\* one.
C40_LifeStep ==
    tables' # tables =>
    LET awarded == StatusTaken("pending", "confirmed")
        reversed == StatusTaken("confirmed", "cancelled")
        released == reversed \cup StatusTaken("pending", "cancelled")
        created == {b \in DOMAIN bookings' : b \notin DOMAIN bookings}
    IN /\ \A b \in DOMAIN bookings :
             /\ b \in DOMAIN bookings'
             /\ bookings'[b].status # bookings[b].status => b \in awarded \cup released
       /\ Cardinality(awarded) <= 1
       /\ awarded # {} => released = {}
       /\ \A f \in DOMAIN flights : \A cl \in SeatClass :
             flights'[f].available[cl] - flights[f].available[cl]
                = Cardinality({b \in released : /\ bookings[b].flight_id = f
                                                 /\ bookings[b].seat_class = cl})
                  - Cardinality({b \in created : /\ bookings'[b].flight_id = f
                                                  /\ bookings'[b].seat_class = cl})
       /\ \A b \in released : seats'[bookings[b].seat_id].is_available
       /\ \A s \in DOMAIN seats :
             (~seats[s].is_available /\ seats'[s].is_available)
                => \E b \in ActiveBookings :
                      /\ bookings[b].seat_id = s
                      /\ b \in released \/ bookings'[b].seat_id # s
       /\ DOMAIN frequent_flyers' = DOMAIN frequent_flyers
       /\ (awarded = {} /\ reversed = {}) => frequent_flyers' = frequent_flyers
       /\ \A b \in awarded :
             frequent_flyers' = AwardPoints(frequent_flyers, bookings[b].passenger_id,
                                            bookings[b].price, bookings[b].seat_class)
       /\ \A b \in reversed :
             reversed = {b}
                => frequent_flyers' = DeductPoints(frequent_flyers,
                                          bookings[b].passenger_id,
                                          bookings[b].price, bookings[b].seat_class)
       /\ \A pid \in DOMAIN frequent_flyers :
             reversed # {} => frequent_flyers'[pid].points <= frequent_flyers[pid].points

\* C40: for any interleaving of confirm_booking, cancel_booking,
\* cancel_bookings_for_flight, process_booking_payment and refund_payment
\* calls acting concurrently on the same booking, over the booking's whole
\* life its seat is released and its class counter incremented at most once,
\* and loyalty points for it are awarded at most once and reversed at most
\* once (reversed only if they were awarded).
C40_EffectsAtMostOnce == [][C40_LifeStep]_vars

\* booking 1 was paid for and confirmed with points awarded; a cancel_booking
\* of it took its snapshot, and a refund of its payment committed first: the
\* booking is cancelled, its seat free, and the cancel_booking is stale
C40_Witness ==
    /\ Len(bookings) = 1
    /\ Len(payments) = 1
    /\ payments[1].status = "refunded"
    /\ bookings[1].status = "cancelled"
    /\ seats[bookings[1].seat_id].is_available
    /\ frequent_flyers # <<>>
    /\ \E p \in DOMAIN calls :
          /\ calls[p].pc = "running"
          /\ calls[p].stale
          /\ calls[p].op = "cancel_booking"
          /\ calls[p].booking_id = 1


====
